---- MODULE Spec2Model ----
(***************************************************************************)
(* RingLight monitor daemon (src/src/monitor.c, src/src/ringlight-monitor.c)*)
(* as a state machine: the polling loop of main(), the overlay supervisor   *)
(* start_overlays()/stop_overlays(), the signal handler and the exit-time   *)
(* cleanup, running against a process table in which overlay children and   *)
(* unrelated processes come and go.                                         *)
(***************************************************************************)
EXTENDS Integers, Sequences, FiniteSets, TLC

\* ---------------------------------------------------------------- bounds
\* Longest configured selector list explored (the code caps it at MAX_SCREENS).
MaxScreens == 2
\* Size of the pid space of the modelled process table.
MaxPid == 2
\* Ticks of the loop whose readings and calls are recorded.
MaxTicks == 5

\* ------------------------------------------------------ program constants
\* #define MAX_SCREENS 8
MAX_SCREENS == 8
\* for (int j = 0; j < 10; j++) ... usleep(50000)
NSLICES == 10

\* Screen selectors a configuration may name: indices and compositor names.
SelectorNames == <<"0", "DP-1", "1", "HDMI-A-1">>
Pids == 1..MaxPid
Slots == 0..(MAX_SCREENS - 1)

\* The selector lists explored: n names taken in order from SelectorNames,
\* starting at its first or at its second entry.
ScreenLists(n) ==
    {[k \in 1..m |-> SelectorNames[((k - 1 + r) % Len(SelectorNames)) + 1]] :
        m \in 0..n, r \in 0..1}

Min(a, b) == IF a < b THEN a ELSE b

VARIABLES
    \* --- daemon state (monitor.c file-scope variables and locals of main)
    pc,             \* position of the daemon in main/start_overlays/stop_overlays
    ret,            \* where the running supervisor call returns to
    running,        \* static volatile sig_atomic_t running
    was, is,        \* bool was / bool is of the loop
    overlay_pids,   \* static pid_t overlay_pids[MAX_SCREENS]
    overlay_count,  \* static int overlay_count
    screens,        \* static char *screens[]; screen_count is its length
    i, j,           \* loop indices of start_overlays / stop_overlays
    sigchld_ign,    \* signal(SIGCHLD, SIG_IGN) in force
    atexit_reg,     \* atexit(cleanup) registered
    exit_status,    \* exit status of the daemon once pc = "done"
    \* --- environment
    proc,           \* process table: pid -> "free" | "child" | "zombie" | "other"
    \* --- observation of the supervisor calls (written, never read, by the code)
    calls,          \* supervisor calls entered in the current loop iteration
    lastcall,       \* kind of the supervisor call that returned last ("none" inside a call)
    prevcall,       \* kind of the call that returned before the current/last one
    pre_count,      \* overlay_count at entry of the current/last call
    forked,         \* selectors of the children forked by the current/last spawn, in order
    forkfail,       \* some fork() of the current/last spawn returned -1
    termSent,       \* slots sent SIGTERM by the current/last terminate
    killSent,       \* slots sent SIGKILL by the current/last terminate
    killedGone,     \* a SIGKILL was sent for a child that had already exited
    waited,         \* the current/last terminate has called waitpid()
    slept,          \* usleep(50000) slices slept by the current/last terminate,
                    \* counted up to NSLICES + 1
    deadAtProbe,    \* at the last probe: ON, children recorded, none of them alive
    attempted,      \* fork() calls made by the current/last spawn
    execFailed,     \* pids of children whose exec failed during the current/last spawn
    argvs,          \* argument vectors the children of the current/last spawn exec
    \* --- startup: its inputs, the locals of main and the settings of monitor.c
    env_home,       \* getenv("HOME") or getpwuid() yields a home directory
    file,           \* config.ini: "missing" or its lines
    cli,            \* the command line options
    cmd,            \* custom_* / cmd_* locals of main
    video_dev,      \* static char video_dev[256]
    poll_ms,        \* static int poll_ms
    procs,          \* static const char *procs[]; proc_count is its length
    color,          \* static char color[32]
    brightness,     \* static int brightness
    width,          \* static int width
    \* --- cam_active
    sys,            \* what the probes of one tick find in the system
    errno,          \* errno of the daemon
    ca,             \* results of the three probes of the current tick
    dev_opened,     \* the video device has been opened in the current tick
    handles,        \* files, directories and devices the probes hold open
    \* --- the environment of startup, and the record of the loop's calls
    cap_net_admin,  \* the process may bind the kernel's process-event channel
    rec,            \* the readings and calls of the loop are being recorded
    readings,       \* the values cam_active() returned, one per tick
    callLog,        \* <<tick, call>> for every supervisor call the loop made
    \* --- the overlay renderer (overlay.c), a process of its own
    ov,             \* its statics, the locals of its main and its surroundings
    \* --- the settings window (gui.cpp), a process of its own
    gui             \* its widgets, its members, its config file and its children

daemonVars == <<pc, ret, running, was, is, overlay_pids, overlay_count, screens,
                i, j, sigchld_ign, atexit_reg, exit_status>>
obsVars == <<calls, lastcall, prevcall, pre_count, forked, forkfail, termSent,
             killSent, killedGone, waited, slept, deadAtProbe>>
obs2 == <<attempted, execFailed, argvs>>
cfgVars == <<env_home, file, cli, cmd, video_dev, poll_ms, procs, color, brightness, width>>
probeVars == <<sys, errno, ca, dev_opened, handles>>
tickVars == <<rec, readings, callLog>>
auxVars == <<cap_net_admin, tickVars, ov, gui>>
extVars == <<cfgVars, probeVars, auxVars>>
vars == <<daemonVars, proc, obsVars, obs2, extVars>>

spawnObs == <<forked, forkfail>>
termObs == <<termSent, killSent, killedGone, waited, slept>>

\* ------------------------------------------------------------ system calls
screen_count == Len(screens)

\* kill(pid, 0) == 0: the pid names an existing process the daemon may signal.
KillProbeOk(p) == p > 0 /\ proc[p] \in {"child", "zombie", "other"}

\* What becomes of an exiting child: auto-reaped when SIGCHLD is ignored.
ChildExitState == IF sigchld_ign THEN "free" ELSE "zombie"

\* waitpid(pid, NULL, WNOHANG): 0 while the child runs, pid when it reaps a
\* zombie, -1 (ECHILD) when pid is no child of the daemon.
WaitpidNohang(p) ==
    IF proc[p] = "child" THEN 0
    ELSE IF proc[p] = "zombie" THEN p
    ELSE -1

\* The process table after waitpid() has collected p (a zombie is released).
Reaped(p) == IF proc[p] = "zombie" THEN [proc EXCEPT ![p] = "free"] ELSE proc

\* The process table after kill(p, SIGKILL) followed by waitpid(p, NULL, 0).
KilledAndReaped(p) ==
    IF proc[p] \in {"child", "zombie", "other"} THEN [proc EXCEPT ![p] = "free"] ELSE proc

NoChildAlive == \A p \in Pids : proc[p] # "child"
NoZombie == \A p \in Pids : proc[p] # "zombie"

\* ---------------------------------------------------------------- C strings
\* A C string is a sequence of chunks.  Every character the code looks at on
\* its own ('=', ',', ' ', '\t', '\n', '\r', '#', ';', '[', '-', '+' and the
\* digits) is a chunk of one character; a run of other characters is one chunk.
Digits == <<"0", "1", "2", "3", "4", "5", "6", "7", "8", "9">>

IsDigit(c) == \E d \in 1..10 : Digits[d] = c

DigitVal(c) == (CHOOSE d \in 1..10 : Digits[d] = c) - 1

\* isspace()
Space == {" ", "\t", "\n", "\r"}

\* Index of the first chunk at or after k that is not in set (Len(s)+1 if none).
RECURSIVE SkipWhile(_, _, _)
SkipWhile(s, k, set) ==
    IF k <= Len(s) /\ s[k] \in set THEN SkipWhile(s, k + 1, set) ELSE k

\* Index of the first chunk at or after k that is in set (Len(s)+1 if none).
RECURSIVE SkipUntil(_, _, _)
SkipUntil(s, k, set) ==
    IF k <= Len(s) /\ s[k] \notin set THEN SkipUntil(s, k + 1, set) ELSE k

RECURSIVE AtoiDigits(_, _, _)
AtoiDigits(s, k, acc) ==
    IF k <= Len(s) /\ IsDigit(s[k])
    THEN AtoiDigits(s, k + 1, acc * 10 + DigitVal(s[k]))
    ELSE acc

\* atoi(): leading white space, an optional sign, then the leading digits.
Atoi(s) ==
    LET k == SkipWhile(s, 1, Space)
    IN  IF k <= Len(s) /\ s[k] = "-" THEN 0 - AtoiDigits(s, k + 1, 0)
        ELSE IF k <= Len(s) /\ s[k] = "+" THEN AtoiDigits(s, k + 1, 0)
        ELSE AtoiDigits(s, k, 0)

\* snprintf("%d")
RECURSIVE Itoa(_)
Itoa(n) ==
    IF n < 0 THEN <<"-">> \o Itoa(0 - n)
    ELSE IF n < 10 THEN <<Digits[n + 1]>>
    ELSE Itoa(n \div 10) \o <<Digits[(n % 10) + 1]>>

\* The characters of a C string as one string (strdup, strncpy of a short string).
RECURSIVE Join(_)
Join(s) == IF s = <<>> THEN "" ELSE s[1] \o Join(Tail(s))

\* Drops trailing chunks in set while the end is behind the first character.
RECURSIVE TrimEnd(_, _)
TrimEnd(s, set) ==
    IF Len(s) > 1 /\ s[Len(s)] \in set
    THEN TrimEnd(SubSeq(s, 1, Len(s) - 1), set)
    ELSE s

\* strtok(s, ","): the non-empty runs between commas.
RECURSIVE Strtok(_)
Strtok(s) ==
    LET a == SkipWhile(s, 1, {","})
        b == SkipUntil(s, a, {","})
    IN  IF a > Len(s) THEN <<>>
        ELSE <<SubSeq(s, a, b - 1)>> \o Strtok(SubSeq(s, b + 1, Len(s)))

\* ------------------------------------------------------------ config file
DEFAULT_POLL_MS == 150
DEFAULT_DEVICE == "/dev/video0"
MAX_PROCS == 16

\* One line "key=value\n" of config.ini.
KV(key, val) == <<key, "=">> \o val \o <<"\n">>

\* A line that get_config_value takes for key: not a comment or section line,
\* it has a '=', and the text before the first '=' is exactly key.
LineMatches(line, key) ==
    /\ Len(line) > 0
    /\ line[1] \notin {"#", ";", "["}
    /\ LET eq == SkipUntil(line, 1, {"="})
       IN  eq <= Len(line) /\ Join(SubSeq(line, 1, eq - 1)) = key

\* The value of a matching line: leading blanks and tabs skipped, trailing
\* newline, carriage return and blanks cut while the end is behind the start.
LineValue(line) ==
    LET eq == SkipUntil(line, 1, {"="})
        v == SkipWhile(line, eq + 1, {" ", "\t"})
    IN  TrimEnd(SubSeq(line, v, Len(line)), {"\n", "\r", " "})

RECURSIVE FirstMatch(_, _, _)
FirstMatch(lines, k, key) ==
    IF k > Len(lines) THEN 0
    ELSE IF LineMatches(lines[k], key) THEN k
    ELSE FirstMatch(lines, k + 1, key)

\* get_config_value: found is FALSE for the NULL result.
get_config_value(f, key) ==
    LET k == IF f.exists THEN FirstMatch(f.lines, 1, key) ELSE 0
    IN  IF k = 0 THEN [found |-> FALSE, val |-> <<>>]
        ELSE [found |-> TRUE, val |-> LineValue(f.lines[k])]

\* A token of a list in the file: blanks cut at both ends.
TrimTok(t) ==
    LET a == SkipWhile(t, 1, {" "})
    IN  TrimEnd(SubSeq(t, a, Len(t)), {" "})

\* The loop over the tokens of a list: it stops at cap entries, trims the
\* token when trim is set and skips a token that is empty after trimming.
RECURSIVE AddTokens(_, _, _, _)
AddTokens(list, toks, cap, trim) ==
    IF toks = <<>> \/ Len(list) >= cap THEN list
    ELSE LET t == IF trim THEN TrimTok(toks[1]) ELSE toks[1]
         IN  AddTokens(IF Len(t) > 0 THEN Append(list, Join(t)) ELSE list,
                       Tail(toks), cap, trim)

\* Variant of the screen list loop without the bound on the array.
ScreenCap_none == MAX_SCREENS * 100

\* The bound of the loops that fill screens[] and cmd_screens[].
ScreenCap == MAX_SCREENS

\* Variant without the limits.
Clamp_none(v, lo, hi) == v

\* The two if statements that follow every atoi of a brightness or width.
Clamp(v, lo, hi) == IF v < lo THEN lo ELSE IF v > hi THEN hi ELSE v

\* The static initialisers of the settings.
StaticSettings ==
    /\ video_dev = DEFAULT_DEVICE
    /\ poll_ms = DEFAULT_POLL_MS
    /\ procs = <<>>
    /\ color = "FFFFFF"
    /\ brightness = 100
    /\ width = 80

\* The locals of main before the option loop.
NoCmd ==
    [custom_procs |-> FALSE, custom_screens |-> FALSE, custom_color |-> FALSE,
     custom_brightness |-> FALSE, custom_width |-> FALSE, custom_device |-> FALSE,
     cmd_color |-> "", cmd_brightness |-> 0, cmd_width |-> 0, cmd_device |-> "",
     cmd_procs |-> <<>>, cmd_screens |-> <<>>, poll_ms |-> DEFAULT_POLL_MS,
     status |-> -1]

NoFile == [exists |-> FALSE, lines |-> <<>>]

\* A system in which no probe finds anything.
QuietSys ==
    [self |-> [comm |-> <<"r", "l">>, cmdline |-> <<"r", "l">>, fds |-> {},
               fd_readable |-> TRUE, execd |-> <<>>],
     other |-> [comm |-> <<"p", "y">>, cmdline |-> <<"p", "y">>, fds |-> {},
                fd_readable |-> TRUE, execd |-> <<>>],
     rp |-> "/dev/video0",
     open_ok |-> FALSE, ioctl_ret |-> 0, ioctl_errno |-> "EINVAL", close_errno |-> "none"]

NoProbe == [w |-> "none", d |-> "none", v |-> "none"]

\* The overlay renderer before it is started: the static initialisers of
\* overlay.c, and around them the command line (argv), the outputs the
\* compositor announces (wl_outputs), what the client library does when a
\* signal interrupts its wait (eintr), the events waiting on the connection
\* (pending) and the number sent so far (delivered).
\* No wl_buffer: panel->buffer == NULL, or nothing attached to the surface.
NoBuffer == [w |-> 0, h |-> 0]

\* A panel_t after calloc, and its surface: the buffer attached to it and the
\* region last damaged; last is how the latest configure event ended.
NoPanel ==
    [width |-> 0, height |-> 0, buffer |-> NoBuffer, configured |-> FALSE,
     attached |-> NoBuffer, damage |-> NoBuffer, last |-> "none"]

NoOverlay ==
    [pc |-> "o_none", argv |-> <<>>, wl_outputs |-> <<>>, eintr |-> "retry",
     cfg_target_name |-> "", cfg_target_output |-> -1, cfg_fullscreen |-> FALSE,
     cfg_list_only |-> FALSE, outputs |-> <<>>, target |-> -1,
     num_panels |-> 0, configured |-> 0, running |-> TRUE, handlers |-> FALSE,
     phase |-> "none", signaled |-> FALSE, intr |-> FALSE,
     pending |-> <<>>, delivered |-> 0, destroyed |-> FALSE, status |-> -1,
     panel |-> NoPanel]

\* Nothing is recorded and no overlay renderer is looked at.
\* The values of config.ini the settings window reads and writes.  A list
\* value is the sequence of its items and the commas between them.
NoStore ==
    [autoEnable |-> FALSE, videoDevice |-> "", processes |-> "",
     minimizeToTray |-> TRUE, enabledScreens |-> <<>>, enabledScreenIndices |-> <<>>]

\* The settings window before it is constructed.  stored is config.ini and
\* file0 what it held when the program started; q_screens and dev_video are
\* the screens of the session and the video devices under /dev; timer is the
\* single-shot timer of loadSettings with the list it captured; monitors
\* counts the ringlight-monitor children of the window that are alive.
NoGui ==
    [pc |-> "g_none", stored |-> NoStore, file0 |-> NoStore,
     q_screens |-> <<>>, dev_video |-> <<>>, tray |-> FALSE,
     m_autoEnable |-> FALSE, m_processEdit |-> "", m_minimizeToTray |-> FALSE,
     m_videoDevice |-> <<>>, m_screenList |-> <<>>,
     timer |-> [armed |-> FALSE, enabled |-> <<>>],
     m_monitorProc |-> "null", monitors |-> 0, savedInLoad |-> FALSE]

InitAux ==
    /\ rec = FALSE
    /\ readings = <<>>
    /\ callLog = <<>>
    /\ ov = NoOverlay
    /\ gui = NoGui

\* The settings and the probe state when the supervisor and the loop are
\* examined on their own: no file, no option, nothing to find.
InitSettings ==
    /\ env_home = TRUE
    /\ file = NoFile
    /\ cli = <<>>
    /\ cmd = NoCmd
    /\ StaticSettings
    /\ sys = QuietSys
    /\ errno = "none"
    /\ ca = NoProbe
    /\ dev_opened = FALSE
    /\ handles = 0

\* The state of everything outside the supervisor and the loop when those are
\* examined on their own.
InitExt ==
    /\ cap_net_admin = TRUE
    /\ InitAux
    /\ InitSettings

\* ------------------------------------------------------------------- Init
InitObs ==
    /\ attempted = 0
    /\ execFailed = {}
    /\ argvs = <<>>
    /\ calls = <<>>
    /\ lastcall = "none"
    /\ prevcall = "none"
    /\ pre_count = 0
    /\ forked = <<>>
    /\ forkfail = FALSE
    /\ termSent = {}
    /\ killSent = {}
    /\ killedGone = FALSE
    /\ waited = FALSE
    /\ slept = 0
    /\ deadAtProbe = FALSE

Init ==
    /\ pc = "main"
    /\ ret = "none"
    /\ running = TRUE
    /\ was = FALSE
    /\ is = FALSE
    /\ overlay_pids = [s \in Slots |-> 0]
    /\ overlay_count = 0
    /\ screens = <<>>
    /\ i = 0
    /\ j = 0
    /\ sigchld_ign = FALSE
    /\ atexit_reg = FALSE
    /\ exit_status = -1
    /\ proc = [p \in Pids |-> "free"]
    /\ InitObs
    /\ InitExt


\* ------------------------------------------------------------ environment
\* An overlay child exits on its own (after SIGTERM, after a failed exec, or
\* for any other reason).
ChildExit ==
    \E p \in Pids :
        /\ proc[p] = "child"
        /\ proc' = [proc EXCEPT ![p] = ChildExitState]
        /\ UNCHANGED <<daemonVars, obsVars>>
        /\ UNCHANGED <<obs2, extVars>>

\* An unrelated process is created with a pid that is free (pid reuse). Only a
\* pid the daemon still has on record can make a difference to the daemon.
OtherStart ==
    \E p \in Pids :
        /\ proc[p] = "free"
        /\ \E s \in Slots : overlay_pids[s] = p
        /\ proc' = [proc EXCEPT ![p] = "other"]
        /\ UNCHANGED <<daemonVars, obsVars>>
        /\ UNCHANGED <<obs2, extVars>>

OtherExit ==
    \E p \in Pids :
        /\ proc[p] = "other"
        /\ proc' = [proc EXCEPT ![p] = "free"]
        /\ UNCHANGED <<daemonVars, obsVars>>
        /\ UNCHANGED <<obs2, extVars>>

\* SIGINT or SIGTERM delivered to the daemon once the handlers are installed:
\* static void sig_handler(int s) { (void)s; running = 0; }
sig_handler ==
    /\ pc \notin {"main", "c_args", "c_load", "c_apply", "done", "h_idle"}
    /\ ret # "h_idle"
    /\ running
    /\ running' = FALSE
    /\ UNCHANGED <<pc, ret, was, is, overlay_pids, overlay_count, screens, i, j,
                   sigchld_ign, atexit_reg, exit_status, proc, obsVars>>
    /\ UNCHANGED <<obs2, extVars>>

\* -------------------------------------------------------- start_overlays
\* Variant of the check that looks at the first recorded pid only.
AlreadyRunning_firstOnly ==
    overlay_count > 0 /\ overlay_pids[0] > 0 /\ KillProbeOk(overlay_pids[0])

\* "Check if already running": some recorded pid answers kill(pid, 0).
AlreadyRunning ==
    \E k \in 0..(overlay_count - 1) :
        overlay_pids[k] > 0 /\ KillProbeOk(overlay_pids[k])

\* Variant that passes the default selector to every child.
SelectorArg_default(k) == "0"

\* The -s argument of the child forked for loop index k ("0" on the default path).
SelectorArg(k) == IF screen_count = 0 THEN "0" ELSE screens[k + 1]

\* Number of forks one start_overlays call attempts.
ForkTarget == IF screen_count = 0 THEN 1 ELSE Min(screen_count, MAX_SCREENS)

\* fork(): -1 on failure, otherwise the pid of the new child.
ForkResults == {-1} \cup {p \in Pids : proc[p] = "free"}

\* The execlp() call of the child forked for selector k.
OverlayArgv(k) ==
    <<"ringlight-overlay", "-s", SelectorArg(k), "-c", color,
      "-b", Join(Itoa(brightness)), "-w", Join(Itoa(width))>>

\* Variant in which a failed fork ends the loop.
LoopContinues_untilFailure(p) == p >= 0 /\ i + 1 < ForkTarget

\* Whether start_overlays goes on to the next selector after fork() returned p:
\* the default path returns, the loop continues (also after perror("fork")).
LoopContinues(p) == i + 1 < ForkTarget

\* The call returns to its caller.
Return(kind) ==
    /\ pc' = ret
    /\ ret' = "none"
    /\ i' = 0
    /\ j' = 0
    /\ lastcall' = kind

StartCheck ==
    /\ pc = "so_check"
    /\ calls' = Append(calls, "spawn")
    /\ prevcall' = lastcall
    /\ pre_count' = overlay_count
    /\ forked' = <<>>
    /\ forkfail' = FALSE
    /\ termSent' = {}
    /\ killSent' = {}
    /\ killedGone' = FALSE
    /\ waited' = FALSE
    /\ slept' = 0
    /\ IF AlreadyRunning
       THEN /\ Return("spawn")
            /\ UNCHANGED overlay_count
       ELSE /\ overlay_count' = 0
            /\ pc' = "so_fork"
            /\ i' = 0
            /\ lastcall' = "none"
            /\ UNCHANGED <<ret, j>>
    /\ UNCHANGED <<running, was, is, overlay_pids, screens, sigchld_ign, atexit_reg,
                   exit_status, proc, deadAtProbe>>
    /\ attempted' = 0
    /\ execFailed' = {}
    /\ argvs' = <<>>
    /\ UNCHANGED extVars

StartFork ==
    /\ pc = "so_fork"
    /\ \E p \in ForkResults :
        /\ IF p < 0
           THEN /\ forkfail' = TRUE
                /\ UNCHANGED <<proc, overlay_pids, overlay_count, forked>>
           ELSE /\ proc' = [proc EXCEPT ![p] = "child"]
                /\ overlay_pids' = [overlay_pids EXCEPT ![overlay_count] = p]
                /\ overlay_count' = overlay_count + 1
                /\ forked' = Append(forked, SelectorArg(i))
                /\ UNCHANGED forkfail
        /\ execFailed' = execFailed \ {p}
        /\ argvs' = IF p < 0 THEN argvs ELSE Append(argvs, OverlayArgv(i))
        /\ IF LoopContinues(p)
           THEN /\ i' = i + 1
                /\ UNCHANGED <<pc, ret, j, lastcall>>
           ELSE Return("spawn")
    /\ UNCHANGED <<running, was, is, screens, sigchld_ign, atexit_reg, exit_status,
                   calls, prevcall, pre_count, termObs, deadAtProbe>>
    /\ attempted' = attempted + 1
    /\ UNCHANGED extVars

\* --------------------------------------------------------- stop_overlays
\* Variant without the escalation to SIGKILL.
NeedsForceKill_never(s) == FALSE

\* if (overlay_pids[i] > 0) { kill(.., SIGKILL); waitpid(.., 0); ... }
NeedsForceKill(s) == overlay_pids[s] > 0

\* Variant that leaves overlay_count as it is.
CountAfterStop_keep == overlay_count

\* overlay_count = 0; at the end of stop_overlays
CountAfterStop == 0

StopEntry ==
    /\ pc = "st_entry"
    /\ pc' = "st_loop"
    /\ i' = 0
    /\ calls' = Append(calls, "terminate")
    /\ prevcall' = lastcall
    /\ lastcall' = "none"
    /\ pre_count' = overlay_count
    /\ forked' = <<>>
    /\ forkfail' = FALSE
    /\ termSent' = {}
    /\ killSent' = {}
    /\ killedGone' = FALSE
    /\ waited' = FALSE
    /\ slept' = 0
    /\ UNCHANGED <<ret, running, was, is, overlay_pids, overlay_count, screens, j,
                   sigchld_ign, atexit_reg, exit_status, proc, deadAtProbe>>
    /\ attempted' = 0
    /\ argvs' = <<>>
    /\ UNCHANGED <<execFailed, extVars>>

\* Head of the for loop: skip an empty slot, or send SIGTERM and start polling.
StopLoop ==
    /\ pc = "st_loop"
    /\ IF i < overlay_count
       THEN /\ IF overlay_pids[i] <= 0
               THEN /\ i' = i + 1
                    /\ UNCHANGED <<pc, j, termSent>>
               ELSE /\ termSent' = termSent \cup {i}
                    /\ j' = 0
                    /\ pc' = "st_poll"
                    /\ UNCHANGED i
            /\ UNCHANGED <<ret, overlay_count, lastcall>>
       ELSE /\ overlay_count' = CountAfterStop
            /\ Return("terminate")
            /\ UNCHANGED termSent
    /\ UNCHANGED <<running, was, is, overlay_pids, screens, sigchld_ign, atexit_reg,
                   exit_status, proc, calls, prevcall, pre_count, spawnObs,
                   killSent, killedGone, waited, slept, deadAtProbe>>
    /\ UNCHANGED <<obs2, extVars>>

\* One slice of the wait: waitpid(WNOHANG), then usleep(50000) if the child runs.
StopPoll ==
    /\ pc = "st_poll"
    /\ waited' = TRUE
    /\ IF WaitpidNohang(overlay_pids[i]) # 0
       THEN /\ proc' = Reaped(overlay_pids[i])
            /\ overlay_pids' = [overlay_pids EXCEPT ![i] = 0]
            /\ pc' = "st_esc"
            /\ UNCHANGED <<j, slept>>
       ELSE /\ slept' = Min(slept + 1, NSLICES + 1)
            /\ j' = j + 1
            /\ pc' = IF j + 1 < NSLICES THEN "st_poll" ELSE "st_esc"
            /\ UNCHANGED <<proc, overlay_pids>>
    /\ UNCHANGED <<ret, running, was, is, overlay_count, screens, i, sigchld_ign,
                   atexit_reg, exit_status, calls, lastcall, prevcall, pre_count,
                   spawnObs, termSent, killSent, killedGone, deadAtProbe>>
    /\ UNCHANGED <<obs2, extVars>>

\* After the wait: force-kill and reap the slot if it is still recorded.
StopEscalate ==
    /\ pc = "st_esc"
    /\ IF NeedsForceKill(i)
       THEN /\ killSent' = killSent \cup {i}
            /\ killedGone' = (killedGone \/ proc[overlay_pids[i]] \notin {"child", "zombie"})
            /\ waited' = TRUE
            /\ proc' = KilledAndReaped(overlay_pids[i])
            /\ overlay_pids' = [overlay_pids EXCEPT ![i] = 0]
       ELSE UNCHANGED <<killSent, killedGone, waited, proc, overlay_pids>>
    /\ i' = i + 1
    /\ j' = 0
    /\ pc' = "st_loop"
    /\ UNCHANGED <<ret, running, was, is, overlay_count, screens, sigchld_ign,
                   atexit_reg, exit_status, calls, lastcall, prevcall, pre_count,
                   spawnObs, termSent, slept, deadAtProbe>>
    /\ UNCHANGED <<obs2, extVars>>

\* ------------------------------------------------------------------ main
\* Outcome of option parsing and load_config: run with a selector list, or
\* leave at once for -h (status 0) or an unknown option (status 1).
Startup ==
    /\ pc = "main"
    /\ \E opt \in {"run", "help", "bad"} :
        IF opt = "run"
        THEN /\ \E sc \in ScreenLists(Min(MaxScreens, MAX_SCREENS)) : screens' = sc
             /\ sigchld_ign' = TRUE
             /\ atexit_reg' = TRUE
             /\ pc' = "loop"
             /\ UNCHANGED exit_status
        ELSE /\ exit_status' = (IF opt = "help" THEN 0 ELSE 1)
             /\ pc' = "done"
             /\ UNCHANGED <<screens, sigchld_ign, atexit_reg>>
    /\ UNCHANGED <<ret, running, was, is, overlay_pids, overlay_count, i, j, proc, obsVars>>
    /\ UNCHANGED <<obs2, extVars>>

\* Variant of the loop that never looks at the flag.
LoopCond_forever == TRUE

\* while (running)
LoopCond == running

LoopTest ==
    /\ pc = "loop"
    /\ pc' = IF LoopCond THEN "probe" ELSE "exit"
    /\ UNCHANGED <<ret, running, was, is, overlay_pids, overlay_count, screens, i, j,
                   sigchld_ign, atexit_reg, exit_status, proc, obsVars>>
    /\ UNCHANGED <<obs2, extVars>>

\* Level-triggered variant: spawn whenever the reading is true.
SpawnEdge_level(cur, prev) == cur

\* if (is && !was) start_overlays();
SpawnEdge(cur, prev) == cur /\ ~prev
\* else if (!is && was) stop_overlays();
TerminateEdge(cur, prev) == ~cur /\ prev

\* bool is = cam_active(); followed by the dispatch on the edge.
Probe ==
    /\ pc = "probe"
    /\ rec => Len(readings) < MaxTicks
    /\ \E r \in BOOLEAN :
        /\ is' = r
        /\ IF SpawnEdge(r, was)
           THEN pc' = "so_check" /\ ret' = "set_was"
           ELSE IF TerminateEdge(r, was)
                THEN pc' = "st_entry" /\ ret' = "set_was"
                ELSE pc' = "set_was" /\ ret' = "none"
        /\ readings' = IF rec THEN Append(readings, r) ELSE readings
    /\ callLog' = IF ~rec THEN callLog
                  ELSE IF pc' = "so_check" THEN Append(callLog, <<Len(readings'), "spawn">>)
                  ELSE IF pc' = "st_entry" THEN Append(callLog, <<Len(readings'), "terminate">>)
                  ELSE callLog
    /\ calls' = <<>>
    /\ deadAtProbe' = (/\ was
                       /\ overlay_count > 0
                       /\ \A k \in 0..(overlay_count - 1) :
                            overlay_pids[k] > 0 => proc[overlay_pids[k]] # "child")
    /\ UNCHANGED <<running, was, overlay_pids, overlay_count, screens, i, j, sigchld_ign,
                   atexit_reg, exit_status, proc, lastcall, prevcall, pre_count,
                   spawnObs, termObs>>
    /\ UNCHANGED <<obs2, cfgVars, probeVars, cap_net_admin, rec, ov, gui>>

\* was = is;
SetWas ==
    /\ pc = "set_was"
    /\ was' = is
    /\ pc' = "sleep"
    /\ UNCHANGED <<ret, running, is, overlay_pids, overlay_count, screens, i, j,
                   sigchld_ign, atexit_reg, exit_status, proc, obsVars>>
    /\ UNCHANGED <<obs2, extVars>>

\* The largest value of an int, which has 32 bits.
INT_MAX == 2147483647

\* poll_ms * 1000, computed in int, is the mathematical product: it is when
\* the product is at most INT_MAX, that is when ms is at most INT_MAX / 1000.
SleepFits(ms) == ms <= INT_MAX \div 1000

\* usleep(poll_ms * 1000);
Sleep ==
    /\ pc = "sleep"
    /\ pc' = "loop"
    /\ UNCHANGED <<ret, running, was, is, overlay_pids, overlay_count, screens, i, j,
                   sigchld_ign, atexit_reg, exit_status, proc, obsVars>>
    /\ UNCHANGED <<obs2, extVars>>

\* Variant that leaves without running the exit handlers.
ExitRunsCleanup_never == FALSE

\* Whether leaving main runs cleanup(): it does once atexit(cleanup) is registered.
ExitRunsCleanup == atexit_reg

\* return 0; the exit handlers run, then the process is gone.
Exit ==
    /\ pc = "exit"
    /\ exit_status' = 0
    /\ IF ExitRunsCleanup
       THEN pc' = "st_entry" /\ ret' = "done"
       ELSE pc' = "done" /\ ret' = "none"
    /\ calls' = <<>>
    /\ UNCHANGED <<running, was, is, overlay_pids, overlay_count, screens, i, j,
                   sigchld_ign, atexit_reg, proc, lastcall, prevcall, pre_count,
                   spawnObs, termObs, deadAtProbe>>
    /\ UNCHANGED <<obs2, extVars>>

Supervisor == StartCheck \/ StartFork \/ StopEntry \/ StopLoop \/ StopPoll \/ StopEscalate
Daemon == Startup \/ LoopTest \/ Probe \/ SetWas \/ Sleep \/ Exit \/ Supervisor
Environment == ChildExit \/ OtherStart \/ OtherExit

Next == Daemon \/ sig_handler \/ Environment

Spec == Init /\ [][Next]_vars

\* The loop with its readings and calls recorded, from OFF with one selector.
InitTicks ==
    /\ pc = "loop"
    /\ ret = "none"
    /\ running = TRUE
    /\ was = FALSE
    /\ is = FALSE
    /\ overlay_pids = [s \in Slots |-> 0]
    /\ overlay_count = 0
    /\ screens = <<"0">>
    /\ i = 0
    /\ j = 0
    /\ sigchld_ign = TRUE
    /\ atexit_reg = TRUE
    /\ exit_status = -1
    /\ proc = [p \in Pids |-> "free"]
    /\ InitObs
    /\ InitSettings
    /\ cap_net_admin = TRUE
    /\ rec = TRUE
    /\ readings = <<>>
    /\ callLog = <<>>
    /\ ov = NoOverlay
    /\ gui = NoGui

NextTicks == LoopTest \/ Probe \/ SetWas \/ Sleep \/ Exit \/ Supervisor \/ sig_handler \/ ChildExit

SpecTicks == InitTicks /\ [][NextTicks]_vars

\* The daemon is a running process: each of its steps is eventually taken.
FairSpec == Spec /\ WF_vars(Daemon)

\* --------------------------------------------------------------- startup
\* main from the option loop to the installation of the handlers, with the
\* command line, the environment and the file as inputs.
Opt(flag, arg) == [flag |-> flag, arg |-> arg]

NineSelectors ==
    <<"0", ",", "1", ",", "2", ",", "3", ",", "4", ",", "5", ",", "6", ",", "7", ",", "8">>

FileAppearance ==
    { <<>>,
      <<KV("color", <<"#", "FF9900">>), KV("brightness", <<"0">>), KV("width", <<"5">>)>>,
      <<KV("brightness", <<"1", "0", "1">>), KV("width", <<"1", "0", "0", "0">>),
        KV("fullscreen", <<"true">>)>>,
      <<<<"#", " appearance", "\n">>, <<"[", "General]", "\n">>,
        KV("color", <<"00FF00">>), KV("brightness", <<"5", "0">>)>> }

FileWatch ==
    { <<>>,
      <<KV("videoDevice", <<"/dev/video1">>),
        KV("processes", <<"zoom", ",", " ", "howdy">>)>>,
      <<KV("processes", <<>>), KV("poll_interval", <<"5", "0">>)>>,
      <<KV("mode", <<"process">>), KV("video_device", <<"/dev/video1">>),
        KV("watch_processes", <<"zoom">>)>> }

FileScreens ==
    { <<>>,
      <<KV("enabledScreenIndices", <<"0", ",", "1">>)>>,
      <<KV("enabledScreens", <<"DP-1", ",", " ", "HDMI-A-1">>)>>,
      <<KV("enabledScreens", <<"DP-1">>), KV("enabledScreenIndices", <<"1">>)>>,
      <<KV("enabledScreenIndices", NineSelectors)>>,
      <<KV("screens", <<"1">>)>>,
      <<KV("screens", <<"0">>), KV("enabledScreens", <<"DP-1">>)>> }

Files ==
    {NoFile} \cup
    { [exists |-> TRUE, lines |-> a \o w \o sc] :
        a \in FileAppearance, w \in FileWatch, sc \in FileScreens }

CliAppearance ==
    { <<>>,
      <<Opt("c", <<"112233">>), Opt("b", <<"0">>)>>,
      <<Opt("b", <<"1", "0", "1">>), Opt("w", <<"5">>)>>,
      <<Opt("w", <<"1", "0", "0", "0">>), Opt("v", <<>>)>> }

CliWatch ==
    { <<>>,
      <<Opt("d", <<"/dev/video2">>)>>,
      <<Opt("p", <<"zoom">>)>>,
      <<Opt("i", <<"5", "0">>)>>,
      <<Opt("i", <<"3", "0", "0", "0", "0", "0", "0">>)>>,
      <<Opt("i", <<"5">>), Opt("p", <<"teams">>), Opt("p", <<"zoom">>)>> }

CliScreens ==
    { <<>>,
      <<Opt("s", <<"1", ",", "0">>)>>,
      <<Opt("s", NineSelectors)>> }

Clis ==
    { a \o w \o sc : a \in CliAppearance, w \in CliWatch, sc \in CliScreens }
    \cup { <<Opt("h", <<>>)>>, <<Opt("f", <<>>)>>, <<Opt("b", <<"7">>), Opt("h", <<>>)>> }

\* The floor the -i case puts under the interval.
MinPollMs == 10

\* One case of the switch in the option loop.
HandleOpt(st, o) ==
    IF o.flag = "d"
    THEN [st EXCEPT !.cmd_device = Join(o.arg), !.custom_device = TRUE]
    ELSE IF o.flag = "i"
    THEN [st EXCEPT !.poll_ms = IF Atoi(o.arg) < MinPollMs THEN MinPollMs ELSE Atoi(o.arg)]
    ELSE IF o.flag = "p"
    THEN [st EXCEPT !.cmd_procs = IF Len(@) < MAX_PROCS - 1
                                  THEN Append(@, Join(o.arg)) ELSE @,
                    !.custom_procs = TRUE]
    ELSE IF o.flag = "c"
    THEN [st EXCEPT !.cmd_color = Join(o.arg), !.custom_color = TRUE]
    ELSE IF o.flag = "b"
    THEN [st EXCEPT !.cmd_brightness = Atoi(o.arg), !.custom_brightness = TRUE]
    ELSE IF o.flag = "w"
    THEN [st EXCEPT !.cmd_width = Atoi(o.arg), !.custom_width = TRUE]
    ELSE IF o.flag = "s"
    THEN [st EXCEPT !.cmd_screens = AddTokens(@, Strtok(o.arg), ScreenCap, FALSE),
                    !.custom_screens = TRUE]
    ELSE IF o.flag = "v" THEN st
    ELSE IF o.flag = "h" THEN [st EXCEPT !.status = 0]
    ELSE [st EXCEPT !.status = 1]

\* The option loop: it ends at the first -h or unknown option.
RECURSIVE ParseOpts(_, _)
ParseOpts(st, opts) ==
    IF opts = <<>> \/ st.status >= 0 THEN st
    ELSE ParseOpts(HandleOpt(st, opts[1]), Tail(opts))

ParseArgs ==
    /\ pc = "c_args"
    /\ cmd' = ParseOpts(NoCmd, cli)
    /\ poll_ms' = cmd'.poll_ms
    /\ IF cmd'.status >= 0
       THEN /\ exit_status' = cmd'.status
            /\ pc' = "done"
       ELSE /\ pc' = "c_load"
            /\ UNCHANGED exit_status
    /\ UNCHANGED <<ret, running, was, is, overlay_pids, overlay_count, screens, i, j,
                   sigchld_ign, atexit_reg, proc, obsVars, obs2>>
    /\ UNCHANGED <<env_home, file, cli, video_dev, procs, color, brightness, width,
                   probeVars, auxVars>>

\* The watch list load_config leaves: the names of the "processes" key, and the
\* default entry when the list is still empty at the end of the function.
LoadedProcs(f) ==
    LET v == get_config_value(f, "processes")
        l == IF v.found /\ Len(v.val) > 0
             THEN AddTokens(procs, Strtok(v.val), MAX_PROCS - 1, TRUE)
             ELSE procs
    IN  IF Len(l) = 0 THEN <<"howdy">> ELSE l

\* The screen list load_config leaves: "enabledScreenIndices" if it has a
\* value, otherwise "enabledScreens".
LoadedScreens(f) ==
    LET x == get_config_value(f, "enabledScreenIndices")
        n == get_config_value(f, "enabledScreens")
    IN  IF x.found /\ Len(x.val) > 0
        THEN AddTokens(screens, Strtok(x.val), ScreenCap, TRUE)
        ELSE IF n.found /\ Len(n.val) > 0
        THEN AddTokens(screens, Strtok(n.val), ScreenCap, TRUE)
        ELSE screens

load_config ==
    /\ pc = "c_load"
    /\ IF ~env_home
       THEN UNCHANGED <<color, brightness, width, video_dev, procs, screens>>
       ELSE LET c == get_config_value(file, "color")
                b == get_config_value(file, "brightness")
                w == get_config_value(file, "width")
                d == get_config_value(file, "videoDevice")
            IN  /\ color' = IF ~c.found THEN color
                            ELSE IF Len(c.val) > 0 /\ c.val[1] = "#"
                            THEN Join(Tail(c.val)) ELSE Join(c.val)
                /\ brightness' = IF b.found THEN Clamp(Atoi(b.val), 1, 100) ELSE brightness
                /\ width' = IF w.found THEN Clamp(Atoi(w.val), 10, 500) ELSE width
                /\ video_dev' = IF d.found /\ Len(d.val) > 0 THEN Join(d.val) ELSE video_dev
                /\ procs' = LoadedProcs(file)
                /\ screens' = LoadedScreens(file)
    /\ pc' = "c_apply"
    /\ UNCHANGED <<ret, running, was, is, overlay_pids, overlay_count, i, j,
                   sigchld_ign, atexit_reg, exit_status, proc, obsVars, obs2>>
    /\ UNCHANGED <<env_home, file, cli, cmd, poll_ms, probeVars, auxVars>>

\* The overrides of the command line and the installation of the handlers;
\* the loop starts next.
ApplyOverrides ==
    /\ pc = "c_apply"
    /\ video_dev' = IF cmd.custom_device THEN cmd.cmd_device ELSE video_dev
    /\ color' = IF cmd.custom_color THEN cmd.cmd_color ELSE color
    /\ brightness' = IF cmd.custom_brightness
                     THEN Clamp(cmd.cmd_brightness, 1, 100) ELSE brightness
    /\ width' = IF cmd.custom_width THEN Clamp(cmd.cmd_width, 10, 500) ELSE width
    /\ procs' = IF cmd.custom_procs THEN cmd.cmd_procs ELSE procs
    /\ screens' = IF cmd.custom_screens THEN cmd.cmd_screens ELSE screens
    /\ sigchld_ign' = TRUE
    /\ atexit_reg' = TRUE
    /\ pc' = "loop"
    /\ UNCHANGED <<ret, running, was, is, overlay_pids, overlay_count, i, j,
                   exit_status, proc, obsVars, obs2>>
    /\ UNCHANGED <<env_home, file, cli, cmd, poll_ms, probeVars, auxVars>>

\* The process at the entry of main.
InitMain ==
    /\ pc = "c_args"
    /\ ret = "none"
    /\ running = TRUE
    /\ was = FALSE
    /\ is = FALSE
    /\ overlay_pids = [s \in Slots |-> 0]
    /\ overlay_count = 0
    /\ screens = <<>>
    /\ i = 0
    /\ j = 0
    /\ sigchld_ign = FALSE
    /\ atexit_reg = FALSE
    /\ exit_status = -1
    /\ proc = [p \in Pids |-> "free"]
    /\ InitObs
    /\ cmd = NoCmd
    /\ StaticSettings
    /\ sys = QuietSys
    /\ errno = "none"
    /\ ca = NoProbe
    /\ dev_opened = FALSE
    /\ handles = 0
    /\ InitAux

InitCfg ==
    /\ InitMain
    /\ cap_net_admin \in BOOLEAN
    /\ env_home \in BOOLEAN
    /\ file \in Files
    /\ cli \in Clis

NextCfg == ParseArgs \/ load_config \/ ApplyOverrides

SpecCfg == InitCfg /\ [][NextCfg]_vars

\* The whole daemon: startup from a few command lines and files, then the loop.
RunScreens == <<KV("enabledScreenIndices", <<"0", ",", "1">>)>>

RunInputs ==
    {<<NoFile, <<>>>>} \cup
    { <<[exists |-> TRUE, lines |-> a \o sc], c \o sel>> :
        a \in FileAppearance, sc \in {<<>>, RunScreens},
        c \in CliAppearance, sel \in {<<>>, <<Opt("s", <<"1">>)>>} }

InitRun ==
    /\ InitMain
    /\ cap_net_admin = TRUE
    /\ env_home = TRUE
    /\ \E inp \in RunInputs : file = inp[1] /\ cli = inp[2]

NextRun ==
    \/ NextCfg
    \/ LoopTest \/ Probe \/ SetWas \/ Sleep \/ Exit \/ Supervisor
    \/ sig_handler
    \/ Environment

SpecRun == InitRun /\ [][NextRun]_vars

\* ------------------------------------------------------------ cam_active
\* What one tick can find in /proc and at the device.  The daemon ("self")
\* and one other process have a short name (comm), a command line, the link
\* targets of their descriptors and an fd directory the daemon can or cannot
\* open; names and command lines are sequences of characters.  execd lists the
\* short names of the images the process exec'd before its current one (comm
\* is the name of the current image); every listed process is alive.  rp is the
\* result of realpath(video_dev) ("none" when it fails); the rest are the
\* outcomes of open(), ioctl(VIDIOC_REQBUFS) and close().
SysStates ==
    [self : [comm : {<<"r", "l">>}, cmdline : {<<"r", "l">>},
             fds : {{}, {"/dev/video0"}}, fd_readable : {TRUE}, execd : {<<>>}],
     other : [comm : {<<"h", "o", "w", "d", "y">>, <<"H", "o", "w", "d", "y">>, <<"p", "y">>},
              cmdline : {<<"p", "y">>, <<"p", "y", " ", "h", "o", "w", "d", "y">>},
              fds : SUBSET {"/dev/video0", "/dev/video1"},
              fd_readable : BOOLEAN,
              execd : {<<>>, << <<"h", "o", "w", "d", "y">> >>}],
     rp : {"none", "/dev/video0", "/dev/video1"},
     open_ok : BOOLEAN,
     ioctl_ret : {0, -1},
     ioctl_errno : {"EBUSY", "EINVAL"},
     close_errno : {"none", "EIO"}]

\* The numeric directories of /proc.
ProcDirs == {"self", "other"}

\* strcmp(c, name) == 0 on the line read from /proc/PID/comm.
CommEquals(comm, name) == Join(comm) = name

\* proc_running(name): some /proc/PID/comm is exactly name.
proc_running(name) == \E p \in ProcDirs : CommEquals(sys[p].comm, name)

\* watched_active(): some watched name runs.
watched_active == \E k \in 1..Len(procs) : proc_running(procs[k])

\* Variant of the scan that does not leave out the daemon's own pid.
SkipsPid_never(p) == FALSE

\* pid == getpid(): the directory of the daemon itself is skipped.
SkipsPid(p) == p = "self"

\* dev_in_use(video_dev): realpath resolves the device and some other process,
\* whose fd directory opens, has a descriptor whose link target is that path.
dev_in_use ==
    /\ sys.rp # "none"
    /\ \E p \in ProcDirs :
        /\ ~SkipsPid(p)
        /\ sys[p].fd_readable
        /\ \E t \in sys[p].fds : t = sys.rp

\* errno after open() and the ioctl: a failing call sets it, a successful one
\* leaves it.
ErrnoAfterIoctl(e) ==
    IF ~sys.open_ok THEN "ENOENT"
    ELSE IF sys.ioctl_ret < 0 THEN sys.ioctl_errno ELSE e

\* errno after the close() that follows.
ErrnoAfterClose(e) ==
    IF sys.open_ok /\ sys.close_errno # "none" THEN sys.close_errno ELSE ErrnoAfterIoctl(e)

\* Variant that reads errno after close().
ErrSeen_afterClose(e) == ErrnoAfterClose(e)

\* int err = errno; taken between the ioctl and close().
ErrSeen(e) == ErrnoAfterIoctl(e)

\* v4l2_busy(video_dev)
v4l2_busy(e) == sys.open_ok /\ sys.ioctl_ret < 0 /\ ErrSeen(e) = "EBUSY"

\* Variant of the return on a match that closes the entry's handle only.
ClosedOnMatch_entry == {"entry"}

\* What a scan of /proc closes before it returns true on a match: the handle
\* of the matching entry (its comm file in proc_running, its fd directory in
\* dev_in_use) and the /proc directory.
ClosedOnMatch == {"entry", "/proc"}

\* The handles a scan of /proc leaves open when it returns.  On a match the
\* /proc directory and the matching entry are open at the return; without one
\* every entry was closed at the end of its iteration and /proc after the
\* loop, and a scan that returns before its opendir opened nothing.
ScanHeld(matched) ==
    IF matched THEN Cardinality({"entry", "/proc"} \ ClosedOnMatch) ELSE 0

\* What v4l2_busy closes after the ioctl.
ClosedAfterIoctl == {"device"}

\* The handles v4l2_busy leaves open: the device, if it opened, less what is
\* closed after the ioctl (close() releases the descriptor even when it
\* reports an error).
DeviceHeld ==
    IF sys.open_ok THEN Cardinality({"device"} \ ClosedAfterIoctl) ELSE 0

\* Variant of || that evaluates its right operand in any case.
OrElse_eager(hit, next) == next

\* The || of cam_active: the right operand is evaluated only if the left one
\* is false.
OrElse(hit, next) == IF hit THEN "p_done" ELSE next

YesNo(b) == IF b THEN "yes" ELSE "no"

\* A tick begins: the system is in some state.
Tick ==
    /\ pc = "p_idle"
    /\ sys' \in SysStates
    /\ ca' = NoProbe
    /\ dev_opened' = FALSE
    /\ pc' = "p_watch"
    /\ UNCHANGED <<ret, running, was, is, overlay_pids, overlay_count, screens, i, j,
                   sigchld_ign, atexit_reg, exit_status, proc, obsVars, obs2, cfgVars, auxVars,
                   errno, handles>>

ProbeWatched ==
    /\ pc = "p_watch"
    /\ ca' = [ca EXCEPT !.w = YesNo(watched_active)]
    /\ pc' = OrElse(watched_active, "p_dev")
    /\ handles' = handles + ScanHeld(watched_active)
    /\ UNCHANGED <<ret, running, was, is, overlay_pids, overlay_count, screens, i, j,
                   sigchld_ign, atexit_reg, exit_status, proc, obsVars, obs2, cfgVars,
                   auxVars, sys, errno, dev_opened>>

ProbeDevice ==
    /\ pc = "p_dev"
    /\ ca' = [ca EXCEPT !.d = YesNo(dev_in_use)]
    /\ pc' = OrElse(dev_in_use, "p_v4l2")
    /\ handles' = handles + ScanHeld(dev_in_use)
    /\ UNCHANGED <<ret, running, was, is, overlay_pids, overlay_count, screens, i, j,
                   sigchld_ign, atexit_reg, exit_status, proc, obsVars, obs2, cfgVars,
                   auxVars, sys, errno, dev_opened>>

ProbeV4l2 ==
    /\ pc = "p_v4l2"
    /\ ca' = [ca EXCEPT !.v = YesNo(v4l2_busy(errno))]
    /\ dev_opened' = sys.open_ok
    /\ handles' = handles + DeviceHeld
    /\ errno' = ErrnoAfterClose(errno)
    /\ pc' = "p_done"
    /\ UNCHANGED <<ret, running, was, is, overlay_pids, overlay_count, screens, i, j,
                   sigchld_ign, atexit_reg, exit_status, proc, obsVars, obs2, cfgVars, auxVars, sys>>

\* cam_active returns; the next tick follows the sleep.
ProbeReturn ==
    /\ pc = "p_done"
    /\ is' = ("yes" \in {ca.w, ca.d, ca.v})
    /\ pc' = "p_idle"
    /\ sys' = QuietSys
    /\ ca' = NoProbe
    /\ dev_opened' = FALSE
    /\ UNCHANGED <<ret, running, was, overlay_pids, overlay_count, screens, i, j,
                   sigchld_ign, atexit_reg, exit_status, proc, obsVars, obs2, cfgVars,
                   auxVars, errno, handles>>

InitProbe ==
    /\ pc = "p_idle"
    /\ ret = "none"
    /\ running = TRUE
    /\ was = FALSE
    /\ is = FALSE
    /\ overlay_pids = [s \in Slots |-> 0]
    /\ overlay_count = 0
    /\ screens = <<>>
    /\ i = 0
    /\ j = 0
    /\ sigchld_ign = TRUE
    /\ atexit_reg = TRUE
    /\ exit_status = -1
    /\ proc = [p \in Pids |-> "free"]
    /\ InitObs
    /\ env_home = TRUE
    /\ file = NoFile
    /\ cli = <<>>
    /\ cmd = NoCmd
    /\ video_dev = DEFAULT_DEVICE
    /\ poll_ms = DEFAULT_POLL_MS
    /\ procs \in {<<"howdy">>, <<"zoom", "howdy">>, <<>>}
    /\ color = "FFFFFF"
    /\ brightness = 100
    /\ width = 80
    /\ sys = QuietSys
    /\ errno \in {"none", "EBUSY"}
    /\ ca = NoProbe
    /\ dev_opened = FALSE
    /\ handles = 0
    /\ cap_net_admin = TRUE
    /\ InitAux

NextProbe == Tick \/ ProbeWatched \/ ProbeDevice \/ ProbeV4l2 \/ ProbeReturn

SpecProbe == InitProbe /\ [][NextProbe]_vars

\* ------------------------------------------------------- exec failures
\* The exec of a child forked by the spawn in progress, or by the spawn that
\* has just returned, fails: the child reports the error and exits with
\* status 1.
\* Variant in which the child leaves through exit(1), which runs the handlers
\* registered with atexit() that it inherited from the daemon.
ChildRunsCleanup_exit == atexit_reg

\* _exit(1): the child ends without running any exit handler.
ChildRunsCleanup == FALSE

\* The children the daemon had recorded when it forked the child in slot k:
\* the copy of overlay_pids[] the child holds.
RecordedBefore(k) == {overlay_pids[m] : m \in 0..(k - 1)} \ {0}

ChildExecFail ==
    /\ pc = "so_fork" \/ lastcall = "spawn"
    /\ \E p \in Pids :
        /\ proc[p] = "child"
        /\ \E k \in 0..(overlay_count - 1) :
            /\ overlay_pids[k] = p
            /\ proc' = [q \in Pids |->
                           IF q = p THEN ChildExitState
                           ELSE IF ChildRunsCleanup /\ q \in RecordedBefore(k)
                                   /\ proc[q] = "child"
                           THEN ChildExitState
                           ELSE proc[q]]
        /\ execFailed' = execFailed \cup {p}
    /\ UNCHANGED <<daemonVars, obsVars, attempted, argvs, extVars>>

NextExec == Next \/ ChildExecFail

SpecExec == Init /\ [][NextExec]_vars

\* ------------------------------------------- supervisor under any caller
\* start_overlays() and stop_overlays() called in any order.
InitSup ==
    /\ pc = "h_idle"
    /\ ret = "none"
    /\ running = TRUE
    /\ was = FALSE
    /\ is = FALSE
    /\ overlay_pids = [s \in Slots |-> 0]
    /\ overlay_count = 0
    /\ screens \in ScreenLists(Min(MaxScreens, MAX_SCREENS))
    /\ i = 0
    /\ j = 0
    /\ sigchld_ign = TRUE
    /\ atexit_reg = TRUE
    /\ exit_status = -1
    /\ proc = [p \in Pids |-> "free"]
    /\ InitObs
    /\ InitExt

CallSpawn ==
    /\ pc = "h_idle"
    /\ pc' = "so_check"
    /\ ret' = "h_idle"
    /\ calls' = <<>>
    /\ UNCHANGED <<running, was, is, overlay_pids, overlay_count, screens, i, j,
                   sigchld_ign, atexit_reg, exit_status, proc, lastcall, prevcall,
                   pre_count, spawnObs, termObs, deadAtProbe>>
    /\ UNCHANGED <<obs2, extVars>>

CallTerminate ==
    /\ pc = "h_idle"
    /\ pc' = "st_entry"
    /\ ret' = "h_idle"
    /\ calls' = <<>>
    /\ UNCHANGED <<running, was, is, overlay_pids, overlay_count, screens, i, j,
                   sigchld_ign, atexit_reg, exit_status, proc, lastcall, prevcall,
                   pre_count, spawnObs, termObs, deadAtProbe>>
    /\ UNCHANGED <<obs2, extVars>>

NextSup == CallSpawn \/ CallTerminate \/ Supervisor \/ Environment

SpecSup == InitSup /\ [][NextSup]_vars

\* ------------------------------------------------- more selectors than slots
\* Startup with more selectors than the arrays hold, then the first call of
\* start_overlays while children exit.
CapInputs ==
    { <<NoFile, <<>>>>,
      <<[exists |-> TRUE, lines |-> <<KV("enabledScreenIndices", NineSelectors)>>], <<>>>>,
      <<[exists |-> TRUE, lines |-> <<KV("enabledScreens", NineSelectors)>>], <<>>>>,
      <<NoFile, <<Opt("s", <<"0", ",", "1", ",", "2">>), Opt("s", NineSelectors)>>>> }

InitCap ==
    /\ InitMain
    /\ cap_net_admin = TRUE
    /\ env_home = TRUE
    /\ \E inp \in CapInputs : file = inp[1] /\ cli = inp[2]

\* The first reading of the loop is busy: start_overlays is called.
FirstActivation ==
    /\ pc = "loop"
    /\ pc' = "so_check"
    /\ ret' = "h_idle"
    /\ is' = TRUE
    /\ calls' = <<>>
    /\ UNCHANGED <<running, was, overlay_pids, overlay_count, screens, i, j,
                   sigchld_ign, atexit_reg, exit_status, proc, lastcall, prevcall,
                   pre_count, spawnObs, termObs, deadAtProbe>>
    /\ UNCHANGED <<obs2, extVars>>

NextCap == NextCfg \/ FirstActivation \/ StartCheck \/ StartFork \/ ChildExit

SpecCap == InitCap /\ [][NextCap]_vars

\* ------------------------------------------------------ overlay renderer
\* The overlay renderer (overlay.c) from its start to its exit: option
\* parsing, the choice of the output, the two event loops and the cleanup,
\* with the compositor sending events and a signal arriving at any time.

\* Events the compositor sends to a running overlay, at most.
MaxEvents == 5

\* #define MAX_OUTPUTS 8
MAX_OUTPUTS == 8

\* Exit status of a process killed by SIGTERM, as the shell reports it.
KilledBySigterm == 128 + 15

\* The command lines explored.
OvArgs ==
    { <<>>,
      <<Opt("s", <<"0">>)>>,
      <<Opt("s", <<"1">>)>>,
      <<Opt("s", <<"2">>)>>,
      <<Opt("s", <<"eDP", "-", "1">>)>>,
      <<Opt("s", <<"HDMI", "-", "A", "-", "1">>), Opt("f", <<>>)>>,
      <<Opt("s", <<"DP", "-", "2">>), Opt("v", <<>>)>>,
      <<Opt("l", <<>>)>>,
      <<Opt("h", <<>>)>>,
      <<Opt("x", <<>>)>> }

\* The names of the outputs the compositor announces, in registry order.
OvOutputs ==
    { <<>>, <<"eDP-1">>, <<"eDP-1", "HDMI-A-1">>, <<"eDP-1", "HDMI-A-1", "DP-2">> }

otherThanOv == <<daemonVars, proc, obsVars, obs2, cfgVars, probeVars, cap_net_admin, tickVars, gui>>

\* The overlay is executed with some command line in some session.
OvStart ==
    /\ ov.pc = "o_none"
    /\ \E a \in OvArgs, o \in OvOutputs, e \in {"retry", "fail"} :
        ov' = [NoOverlay EXCEPT !.pc = "o_main", !.argv = a, !.wl_outputs = o, !.eintr = e]
    /\ UNCHANGED otherThanOv

\* One case of the switch in the option loop of the overlay.
OvHandleOpt(st, o) ==
    IF o.flag = "s"
    THEN [st EXCEPT !.cfg_target_name = Join(o.arg), !.cfg_target_output = Atoi(o.arg)]
    ELSE IF o.flag = "f" THEN [st EXCEPT !.cfg_fullscreen = TRUE]
    ELSE IF o.flag = "l" THEN [st EXCEPT !.cfg_list_only = TRUE]
    ELSE IF o.flag = "v" THEN st
    ELSE IF o.flag = "h" THEN [st EXCEPT !.status = 0]
    ELSE [st EXCEPT !.status = 1]

RECURSIVE OvParseOpts(_, _)
OvParseOpts(st, opts) ==
    IF opts = <<>> \/ st.status >= 0 THEN st
    ELSE OvParseOpts(OvHandleOpt(st, opts[1]), Tail(opts))

\* main up to the choice of the output: the option loop, the connection, the
\* two roundtrips that fill outputs[], the check of the interfaces, the list
\* mode and the check that there is an output.
OvMain ==
    /\ ov.pc = "o_main"
    /\ LET st == OvParseOpts(ov, ov.argv)
       IN  IF st.status >= 0
           THEN ov' = [st EXCEPT !.pc = "o_exit"]
           ELSE \E connected \in BOOLEAN :
                IF ~connected
                THEN ov' = [st EXCEPT !.pc = "o_exit", !.status = 1]
                ELSE LET outs == SubSeq(st.wl_outputs, 1, Min(Len(st.wl_outputs), MAX_OUTPUTS))
                     IN  IF st.cfg_list_only
                         THEN ov' = [st EXCEPT !.outputs = outs, !.pc = "o_exit", !.status = 0]
                         ELSE IF Len(outs) = 0
                         THEN ov' = [st EXCEPT !.outputs = outs, !.pc = "o_exit", !.status = 1]
                         ELSE ov' = [st EXCEPT !.outputs = outs, !.pc = "o_select"]
    /\ UNCHANGED otherThanOv

\* Index of the first output whose name is name, or dflt.
FirstNamed(outs, name, dflt) ==
    IF \E k \in 1..Len(outs) : outs[k] = name
    THEN (CHOOSE k \in 1..Len(outs) :
            outs[k] = name /\ \A m \in 1..(k - 1) : outs[m] # name) - 1
    ELSE dflt

\* The output main chooses: outputs[0]; with a selector, the output of that
\* name if there is one, and then, whatever the name search found, the output
\* whose index is atoi of the selector when that is in range.
FindTarget(outs, name, idx) ==
    IF name = "" THEN 0
    ELSE IF idx >= 0 /\ idx < Len(outs) THEN idx
    ELSE FirstNamed(outs, name, 0)

\* The choice of the output, the creation of the panels (one of which may
\* fail, which clears running) and the installation of the signal handlers.
OvSelect ==
    /\ ov.pc = "o_select"
    /\ \E panels_ok \in BOOLEAN :
        ov' = [ov EXCEPT !.target = FindTarget(ov.outputs, ov.cfg_target_name,
                                               ov.cfg_target_output),
                         !.num_panels = IF ov.cfg_fullscreen THEN 1 ELSE 4,
                         !.running = panels_ok,
                         !.handlers = TRUE,
                         !.phase = "configure",
                         !.pc = "o_test"]
    /\ UNCHANGED otherThanOv

\* while (running) of either loop.  When the flag is clear both loops are left
\* and the cleanup follows.
OvLoopTest ==
    /\ ov.pc = "o_test"
    /\ ov' = [ov EXCEPT !.pc = IF ov.running THEN "o_call" ELSE "o_cleanup"]
    /\ UNCHANGED otherThanOv

\* wl_display_dispatch is entered: it flushes, finds its queue empty and goes
\* to wait for the connection to become readable.
OvDispatchCall ==
    /\ ov.pc = "o_call"
    /\ ov' = [ov EXCEPT !.pc = "o_poll", !.intr = FALSE]
    /\ UNCHANGED otherThanOv

\* The events one call of wl_display_dispatch hands to the listeners:
\* layer_surface_configure marks one more panel configured,
\* layer_surface_closed clears running.
RECURSIVE Configures(_)
Configures(evs) ==
    IF evs = <<>> THEN 0
    ELSE (IF evs[1] = "configure" THEN 1 ELSE 0) + Configures(Tail(evs))

\* wl_display_dispatch returns: with an error if the wait was interrupted and
\* the library gives up, else after dispatching the events that arrived.  A
\* negative return leaves the loop it is in; after a successful return the
\* first loop ends when all panels are configured.
OvDispatchReturn ==
    /\ ov.pc = "o_poll"
    /\ ov.intr \/ ov.pending # <<>>
    /\ IF ov.intr
       THEN ov' = [ov EXCEPT !.intr = FALSE,
                             !.pc = IF ov.phase = "configure" THEN "o_test" ELSE "o_cleanup",
                             !.phase = "main"]
       ELSE LET n == Min(ov.num_panels, ov.configured + Configures(ov.pending))
                closed == \E k \in 1..Len(ov.pending) : ov.pending[k] = "closed"
            IN  ov' = [ov EXCEPT !.pending = <<>>,
                                 !.configured = n,
                                 !.running = ov.running /\ ~closed,
                                 !.phase = IF n = ov.num_panels THEN "main" ELSE ov.phase,
                                 !.pc = "o_test"]
    /\ UNCHANGED otherThanOv

\* "Shutting down...": the panels and the globals are destroyed, return 0.
OvCleanup ==
    /\ ov.pc = "o_cleanup"
    /\ ov' = [ov EXCEPT !.destroyed = TRUE, !.status = 0, !.pc = "o_exit"]
    /\ UNCHANGED otherThanOv

\* The compositor sends an event to the overlay.
OvEvent ==
    /\ ov.pc \in {"o_test", "o_call", "o_poll"}
    /\ ov.delivered < MaxEvents
    /\ \E kind \in {"configure", "closed"} :
        ov' = [ov EXCEPT !.pending = Append(ov.pending, kind),
                         !.delivered = ov.delivered + 1]
    /\ UNCHANGED otherThanOv

\* SIGTERM or SIGINT is delivered to the overlay.  Before the handlers are
\* installed it ends the process; afterwards sig_handler clears running, and
\* a wait in progress is interrupted: the library then retries the wait or
\* gives up with an error.
OvSignal ==
    /\ ov.pc \notin {"o_none", "o_exit"}
    /\ ~ov.signaled
    /\ IF ~ov.handlers
       THEN ov' = [ov EXCEPT !.signaled = TRUE, !.pc = "o_exit", !.status = KilledBySigterm]
       ELSE ov' = [ov EXCEPT !.signaled = TRUE, !.running = FALSE,
                             !.intr = (ov.pc = "o_poll" /\ ov.eintr = "fail")]
    /\ UNCHANGED otherThanOv

OverlayStep == OvMain \/ OvSelect \/ OvLoopTest \/ OvDispatchCall \/ OvDispatchReturn \/ OvCleanup

NextOverlay == OvStart \/ OverlayStep \/ OvEvent \/ OvSignal

SpecOverlay == Init /\ [][NextOverlay]_vars

\* The overlay is a running process: each of its own steps is eventually
\* taken.  Nothing obliges the compositor to send an event.
FairOverlay == SpecOverlay /\ WF_vars(OverlayStep)

\* ------------------------------------------------- one panel of the overlay
\* One panel of the overlay and the configure events of its layer surface.

\* Largest width and height, in pixels, of a panel and of a configure event.
MaxDim == 3

\* create_panel(output, anchor, width, height): main passes the border width
\* for one dimension and 0 for the other, or 0 for both in fullscreen mode.
PanelCreate ==
    /\ ov.pc = "o_none"
    /\ \E bw \in 1..MaxDim, edge \in {"row", "column", "full"} :
        ov' = [NoOverlay EXCEPT
                 !.pc = "o_panel",
                 !.panel = [NoPanel EXCEPT
                              !.width = IF edge = "column" THEN bw ELSE 0,
                              !.height = IF edge = "row" THEN bw ELSE 0]]
    /\ UNCHANGED otherThanOv

\* The condition under "Recreate buffer if needed", evaluated on the panel
\* whose width and height have been updated from the event.
NeedsNewBuffer(panel, evw, evh) ==
    \/ panel.buffer = NoBuffer
    \/ (evw > 0 /\ evh > 0 /\ (panel.width # evw \/ panel.height # evh))

\* create_panel_buffer(panel): refuses a panel without area; otherwise the
\* shared memory, the mapping, the pool and the buffer are made (ok) or one of
\* them is not, and the buffer has the panel's width and height.
create_panel_buffer(panel, ok) ==
    IF panel.width = 0 \/ panel.height = 0 \/ ~ok
    THEN panel
    ELSE [panel EXCEPT !.buffer = [w |-> panel.width, h |-> panel.height]]

\* layer_surface_configure(panel, surface, serial, width, height), with evw
\* and evh for the width and height of the event: the size is
\* taken from the event where it gives one, the buffer is destroyed and made
\* again if the condition asks for it (a failure clears running and returns),
\* then the buffer is attached, the panel's area is damaged and the surface is
\* committed.
layer_surface_configure ==
    /\ ov.pc = "o_panel"
    /\ ov.running
    /\ ov.delivered < MaxEvents
    /\ \E evw \in 0..MaxDim, evh \in 0..MaxDim, ok \in BOOLEAN :
        LET sized == [ov.panel EXCEPT
                        !.width = IF evw > 0 THEN evw ELSE @,
                        !.height = IF evh > 0 THEN evh ELSE @]
            fresh == create_panel_buffer([sized EXCEPT !.buffer = NoBuffer], ok)
        IN  IF NeedsNewBuffer(sized, evw, evh) /\ fresh.buffer = NoBuffer
            THEN ov' = [ov EXCEPT !.panel = [fresh EXCEPT !.last = "error"],
                                  !.running = FALSE,
                                  !.delivered = @ + 1]
            ELSE LET p == IF NeedsNewBuffer(sized, evw, evh) THEN fresh ELSE sized
                 IN  ov' = [ov EXCEPT
                              !.panel = [p EXCEPT !.attached = p.buffer,
                                                  !.damage = [w |-> p.width, h |-> p.height],
                                                  !.configured = TRUE,
                                                  !.last = "ok"],
                              !.delivered = @ + 1]
    /\ UNCHANGED otherThanOv

\* layer_surface_closed(panel, surface)
layer_surface_closed ==
    /\ ov.pc = "o_panel"
    /\ ov.running
    /\ ov' = [ov EXCEPT !.running = FALSE]
    /\ UNCHANGED otherThanOv

NextPanel == PanelCreate \/ layer_surface_configure \/ layer_surface_closed

SpecPanel == Init /\ [][NextPanel]_vars

\* ------------------------------------------------------- settings window
\* The settings window (gui.cpp): its constructor, the timer loadSettings
\* arms, and the operations of the user on the auto-enable box, the buttons
\* and the window.

\* QStringList::join(','): the items with a comma between them.
RECURSIVE JoinComma(_)
JoinComma(l) ==
    IF l = <<>> THEN <<>>
    ELSE IF Len(l) = 1 THEN l
    ELSE <<l[1], ",">> \o JoinComma(Tail(l))

\* QString::split(',', Qt::SkipEmptyParts)
SplitComma(str) == SelectSeq(str, LAMBDA c : c # ",")

\* The rows of m_screenList that are checked.
CheckedRows(g) == SelectSeq(g.m_screenList, LAMBDA it : it.checked)

\* m_videoDevice->currentText(): the first item unless one was chosen; the
\* list holds the chosen item first.
currentText(g) == IF g.m_videoDevice = <<>> THEN "" ELSE g.m_videoDevice[1]

\* saveSettings(): every value is taken from its widget and written.
saveSettings(g) ==
    [g EXCEPT !.stored =
        [autoEnable |-> g.m_autoEnable,
         videoDevice |-> currentText(g),
         processes |-> g.m_processEdit,
         minimizeToTray |-> g.m_minimizeToTray,
         enabledScreens |->
            JoinComma([k \in 1..Len(CheckedRows(g)) |-> CheckedRows(g)[k].name]),
         enabledScreenIndices |->
            JoinComma([k \in 1..Len(CheckedRows(g)) |-> Join(Itoa(CheckedRows(g)[k].index))])],
      !.savedInLoad = @ \/ g.pc = "g_ctor"]

\* Variant of stopMonitor that lets go of the handle and leaves the child.
stopMonitor_forget(g) == [g EXCEPT !.m_monitorProc = "null"]

\* stopMonitor(): a held child is terminated, killed if it is still running
\* after the wait, and its handle deleted.
stopMonitor(g) ==
    IF g.m_monitorProc = "null" THEN g
    ELSE [g EXCEPT !.m_monitorProc = "null",
                   !.monitors = IF g.m_monitorProc = "running" THEN @ - 1 ELSE @]

\* startMonitor(): the previous monitor is stopped; with the box checked the
\* settings are saved and ringlight-monitor is started, which succeeds or not.
startMonitor(g, ok) ==
    LET g1 == stopMonitor(g)
        g2 == saveSettings(g1)
    IN  IF ~g1.m_autoEnable THEN g1
        ELSE [g2 EXCEPT !.m_monitorProc = IF ok THEN "running" ELSE "notrunning",
                        !.monitors = IF ok THEN @ + 1 ELSE @]

\* toggleAutoEnable(enabled), the slot of the box's toggled signal.
toggleAutoEnable(g, enabled, ok) ==
    saveSettings(IF enabled THEN startMonitor(g, ok) ELSE stopMonitor(g))

\* m_autoEnable->setChecked(v): toggled is emitted, and its slot runs, when
\* the state changes.
setChecked(g, v, ok) ==
    IF g.m_autoEnable = v THEN g
    ELSE toggleAutoEnable([g EXCEPT !.m_autoEnable = v], v, ok)

\* m_videoDevice->findText(v) and setCurrentIndex: the item is made current
\* if the list has it.
SelectDevice(items, v) ==
    IF \E k \in 1..Len(items) : items[k] = v
    THEN <<v>> \o SelectSeq(items, LAMBDA d : d # v)
    ELSE items

\* loadSettings(): the widgets are set from the file in the order of the
\* code, the slots of the signals they emit run in between, and the timer is
\* armed with the list of enabled screens.  Every QSettings object of the
\* process reads what the last sync wrote.
loadSettings(g, ok) ==
    LET g1 == setChecked(g, g.stored.autoEnable, ok)
        g2 == [g1 EXCEPT !.m_processEdit = g1.stored.processes]
        g3 == [g2 EXCEPT !.m_minimizeToTray = g2.stored.minimizeToTray]
        g4 == [g3 EXCEPT !.m_videoDevice = SelectDevice(@, g3.stored.videoDevice)]
    IN  [g4 EXCEPT !.timer = [armed |-> TRUE,
                              enabled |-> SplitComma(g4.stored.enabledScreens)]]

\* refreshScreens(): one unchecked row per screen, the first one checked.
refreshScreens(g) ==
    [g EXCEPT !.m_screenList =
        [k \in 1..Len(g.q_screens) |->
            [name |-> g.q_screens[k], index |-> k - 1, checked |-> k = 1]]]

\* refreshVideoDevices(): the devices under /dev, or a placeholder.
refreshVideoDevices(g) ==
    [g EXCEPT !.m_videoDevice =
        IF g.dev_video = <<>> THEN <<"No webcam found">> ELSE g.dev_video]

\* The config files the window can find: written by an earlier saveSettings.
GuiStores ==
    [autoEnable : BOOLEAN,
     videoDevice : {"/dev/video0", "/dev/video1"},
     processes : {"howdy", "zoom"},
     minimizeToTray : BOOLEAN,
     enabledScreens : {<<"eDP-1">>, <<"eDP-1", ",", "HDMI-A-1">>},
     enabledScreenIndices : {<<"0">>, <<"0", ",", "1">>}]

\* The program starts: setupUI and setupTray make the widgets with their
\* initial values.
GuiStart ==
    /\ gui.pc = "g_none"
    /\ \E f \in GuiStores, sc \in {<<"eDP-1">>, <<"eDP-1", "HDMI-A-1">>},
          dv \in {<<>>, <<"/dev/video0", "/dev/video1">>}, tr \in BOOLEAN :
        /\ Len(SplitComma(f.enabledScreens)) = Len(SplitComma(f.enabledScreenIndices))
        /\ gui' = [NoGui EXCEPT !.pc = "g_ctor", !.stored = f, !.file0 = f,
                                !.q_screens = sc, !.dev_video = dv, !.tray = tr,
                                !.m_processEdit = "howdy", !.m_minimizeToTray = TRUE]
    /\ UNCHANGED <<daemonVars, proc, obsVars, obs2, cfgVars, probeVars, cap_net_admin, tickVars, ov>>

\* The constructor calls loadSettings().
GuiLoadSettings ==
    /\ gui.pc = "g_ctor"
    /\ \E ok \in BOOLEAN : gui' = [loadSettings(gui, ok) EXCEPT !.pc = "g_loaded"]
    /\ UNCHANGED <<daemonVars, proc, obsVars, obs2, cfgVars, probeVars, cap_net_admin, tickVars, ov>>

\* The constructor calls refreshScreens() and refreshVideoDevices() and
\* returns; the window is shown and the event loop runs.
GuiRefresh ==
    /\ gui.pc = "g_loaded"
    /\ gui' = [refreshVideoDevices(refreshScreens(gui)) EXCEPT !.pc = "g_idle"]
    /\ UNCHANGED <<daemonVars, proc, obsVars, obs2, cfgVars, probeVars, cap_net_admin, tickVars, ov>>

\* The timer of loadSettings fires: the rows are checked by name and
\* toggleAutoEnable is called with the state of the box.
GuiTimer ==
    /\ gui.pc = "g_idle"
    /\ gui.timer.armed
    /\ \E ok \in BOOLEAN :
        LET g1 == [gui EXCEPT
                     !.timer = [armed |-> FALSE, enabled |-> <<>>],
                     !.m_screenList =
                        [k \in 1..Len(gui.m_screenList) |->
                            [gui.m_screenList[k] EXCEPT !.checked =
                                \E m \in 1..Len(gui.timer.enabled) :
                                    gui.timer.enabled[m] = gui.m_screenList[k].name]]]
        IN  gui' = toggleAutoEnable(g1, g1.m_autoEnable, ok)
    /\ UNCHANGED <<daemonVars, proc, obsVars, obs2, cfgVars, probeVars, cap_net_admin, tickVars, ov>>

\* The user clicks the auto-enable box.
GuiToggle ==
    /\ gui.pc = "g_idle"
    /\ \E ok \in BOOLEAN : gui' = setChecked(gui, ~gui.m_autoEnable, ok)
    /\ UNCHANGED <<daemonVars, proc, obsVars, obs2, cfgVars, probeVars, cap_net_admin, tickVars, ov>>

\* The user edits the process names, chooses a device or checks a screen.
GuiEdit ==
    /\ gui.pc = "g_idle"
    /\ \/ \E t \in {"howdy", "zoom"} : gui' = [gui EXCEPT !.m_processEdit = t]
       \/ \E k \in 1..Len(gui.m_videoDevice) :
            gui' = [gui EXCEPT !.m_videoDevice = SelectDevice(@, @[k])]
       \/ \E k \in 1..Len(gui.m_screenList) :
            gui' = [gui EXCEPT !.m_screenList[k].checked = ~@]
    /\ gui' # gui
    /\ UNCHANGED <<daemonVars, proc, obsVars, obs2, cfgVars, probeVars, cap_net_admin, tickVars, ov>>

\* The Save button: saveSettings, and startMonitor if the box is checked.
GuiSave ==
    /\ gui.pc = "g_idle"
    /\ \E ok \in BOOLEAN :
        gui' = IF gui.m_autoEnable THEN startMonitor(saveSettings(gui), ok)
               ELSE saveSettings(gui)
    /\ UNCHANGED <<daemonVars, proc, obsVars, obs2, cfgVars, probeVars, cap_net_admin, tickVars, ov>>

\* closeEvent: the window hides when it can go to the tray; otherwise the
\* settings are saved and the monitor is stopped.  The program goes on.
GuiClose ==
    /\ gui.pc = "g_idle"
    /\ gui' = IF gui.tray /\ gui.m_minimizeToTray THEN gui
              ELSE stopMonitor(saveSettings(gui))
    /\ gui' # gui
    /\ UNCHANGED <<daemonVars, proc, obsVars, obs2, cfgVars, probeVars, cap_net_admin, tickVars, ov>>

\* The Quit button and the Quit entry of the tray menu.
GuiQuit ==
    /\ gui.pc = "g_idle"
    /\ gui' = [stopMonitor(saveSettings(gui)) EXCEPT !.pc = "g_quit"]
    /\ UNCHANGED <<daemonVars, proc, obsVars, obs2, cfgVars, probeVars, cap_net_admin, tickVars, ov>>

\* The monitor the window holds exits on its own.
GuiMonitorExits ==
    /\ gui.pc = "g_idle"
    /\ gui.m_monitorProc = "running"
    /\ gui' = [gui EXCEPT !.m_monitorProc = "notrunning", !.monitors = @ - 1]
    /\ UNCHANGED <<daemonVars, proc, obsVars, obs2, cfgVars, probeVars, cap_net_admin, tickVars, ov>>

NextGui ==
    \/ GuiStart \/ GuiLoadSettings \/ GuiRefresh \/ GuiTimer
    \/ GuiToggle \/ GuiEdit \/ GuiSave \/ GuiClose \/ GuiQuit \/ GuiMonitorExits

SpecGui == Init /\ [][NextGui]_vars

TypeOK ==
    /\ pc \in {"main", "loop", "probe", "set_was", "sleep", "exit", "done", "h_idle",
               "so_check", "so_fork", "st_entry", "st_loop", "st_poll", "st_esc"}
    /\ overlay_count \in 0..MAX_SCREENS
    /\ overlay_pids \in [Slots -> {0} \cup Pids]
    /\ proc \in [Pids -> {"free", "child", "zombie", "other"}]
    /\ j \in 0..NSLICES

\* ================================================================ claims

SomeRecordedChildAlive ==
    \E k \in 0..(overlay_count - 1) :
        overlay_pids[k] > 0 /\ proc[overlay_pids[k]] = "child"

\* C1: in a loop iteration spawn() is called iff the reading is true and the
\* previous one was false, terminate() iff the reading is false and the
\* previous one was true; at most one call per iteration, made before the
\* iteration ends, and none when the reading equals the previous one.
\* (At pc = "set_was" the calls of the iteration are over and `was` still
\* holds the previous reading.)
C1_EdgeTriggered ==
    pc = "set_was" =>
        /\ (calls = <<"spawn">>) <=> (is /\ ~was)
        /\ (calls = <<"terminate">>) <=> (~is /\ was)
        /\ (is = was) => (calls = <<>>)
        /\ Len(calls) <= 1

\* An iteration that saw the ON-to-OFF flip has called terminate() once.
C1_Witness == pc = "set_was" /\ was /\ ~is /\ calls = <<"terminate">>

\* C2: if every overlay child has exited on its own while ON, the next loop
\* iteration notices: by the end of that iteration the daemon has spawned
\* again or treats the state as OFF, so a reading that is still true leads to
\* new overlays.
C2_DeadChildrenDetected ==
    (pc = "sleep" /\ deadAtProbe /\ is) => (~was \/ calls = <<"spawn">>)

\* C3: after terminate() has returned, overlay_count is 0, every pid slot is 0
\* and no overlay child is running or left as a zombie.
C3_TerminateLeavesNothing ==
    lastcall = "terminate" =>
        /\ overlay_count = 0
        /\ \A s \in Slots : overlay_pids[s] = 0
        /\ NoChildAlive
        /\ NoZombie

\* terminate() returned after one child left in time and one had to be killed.
C3_Witness ==
    /\ lastcall = "terminate"
    /\ killSent # {}
    /\ termSent \ killSent # {}

\* C4: once SIGINT/SIGTERM has cleared the running flag, the daemon eventually
\* has left the loop, emptied OverlayChildSet with no child or zombie left,
\* and exited with status 0.
C4_SignalLeadsToCleanExit ==
    (~running) ~> (/\ pc = "done"
                   /\ exit_status = 0
                   /\ overlay_count = 0
                   /\ NoChildAlive
                   /\ NoZombie)

\* The daemon has exited after a signal whose cleanup found overlays recorded.
C4_Witness ==
    /\ pc = "done"
    /\ ~running
    /\ exit_status = 0
    /\ lastcall = "terminate"
    /\ pre_count > 0
    /\ termSent # {}

C6_SecondSpawnForksNothing ==
    (lastcall = "spawn" /\ prevcall = "spawn") =>
        (forked = <<>> /\ ~forkfail /\ overlay_count = pre_count)

\* C6 as amended: a spawn() that follows a spawn() with no terminate() in
\* between, entered while a child recorded by the first call is still
\* running, returns at once: no fork, overlay_pids and overlay_count unchanged.
C6_SpawnNoopWhileChildAlive ==
    [][(/\ pc = "so_check"
        /\ pc' # "so_check"
        /\ lastcall = "spawn"
        /\ SomeRecordedChildAlive)
       => (/\ pc' = ret
           /\ overlay_pids' = overlay_pids
           /\ overlay_count' = overlay_count
           /\ proc' = proc
           /\ forked' = <<>>
           /\ ~forkfail')]_vars

\* A second spawn() has returned without forking while a child is running.
C6_Witness ==
    /\ pc = "h_idle"
    /\ lastcall = "spawn"
    /\ prevcall = "spawn"
    /\ forked = <<>>
    /\ overlay_count > 0
    /\ SomeRecordedChildAlive

\* C7: a terminate() entered with nothing recorded (overlay_count = 0, as it
\* is right after a previous terminate()) sends no signal, waits on nothing
\* and leaves the set empty.
C7_TerminateIdempotent ==
    (lastcall = "terminate" /\ (pre_count = 0 \/ prevcall = "terminate")) =>
        /\ termSent = {}
        /\ killSent = {}
        /\ ~waited
        /\ slept = 0
        /\ overlay_count = 0

\* Two terminate() calls in a row have returned.
C7_Witness == lastcall = "terminate" /\ prevcall = "terminate" /\ pc = "done"

\* C8: terminate() has sent SIGTERM to every recorded child before it waits
\* for any of them, and never sends SIGKILL for a child that exited during
\* the wait.
C8_TermAllBeforeWaiting ==
    /\ pc = "st_poll" =>
          \A k \in 0..(overlay_count - 1) : overlay_pids[k] > 0 => k \in termSent
    /\ ~killedGone

\* C9: one terminate() call sleeps at most NSLICES slices of 50 ms in total,
\* however many children are recorded.
C9_OneWaitBudget == slept <= NSLICES

\* C10: a spawn() entered with nothing recorded in which no fork failed has
\* forked exactly one child per configured selector, in configuration order,
\* each with its own selector, or one child with selector "0" when the list
\* is empty; every one of them is recorded.
C10_OneChildPerSelector ==
    (lastcall = "spawn" /\ pre_count = 0 /\ ~forkfail) =>
        /\ forked = (IF screen_count = 0 THEN <<"0">> ELSE screens)
        /\ overlay_count = Len(forked)

\* A spawn() for a two-selector configuration has returned with both forked.
C10_Witness ==
    /\ lastcall = "spawn"
    /\ pre_count = 0
    /\ ~forkfail
    /\ screen_count = 2
    /\ Len(forked) = 2
    /\ forked[1] # forked[2]

\* ------------------------------------------------- inputs, as the claims read them
\* The arguments of flag on the command line, in order.
FlagArgs(flag) ==
    LET IsFlag(o) == o.flag = flag
    IN  SelectSeq(cli, IsFlag)

HasFlag(flag) == FlagArgs(flag) # <<>>

LastArg(flag) == FlagArgs(flag)[Len(FlagArgs(flag))].arg

\* The value of key in the file the daemon can locate.
FileValue(key) ==
    IF env_home THEN get_config_value(file, key) ELSE [found |-> FALSE, val |-> <<>>]

FileHas(key) == FileValue(key).found /\ Len(FileValue(key).val) > 0

\* Startup has completed: the loop has been reached.
Started == pc \notin {"c_args", "c_load", "c_apply"} /\ cmd.status < 0

Limit(v, lo, hi) == IF v < lo THEN lo ELSE IF v > hi THEN hi ELSE v

\* The number given for a field: by the flag if present, else by the key if
\* present, else the default.
GivenNumber(flag, key, default) ==
    IF HasFlag(flag) THEN Atoi(LastArg(flag))
    ELSE IF FileValue(key).found THEN Atoi(FileValue(key).val)
    ELSE default

HasArg(a, opt) == \E k \in 1..Len(a) : a[k] = opt

ArgOf(a, opt) == a[(CHOOSE k \in 1..(Len(a) - 1) : a[k] = opt) + 1]

\* The file asks for fullscreen overlays.
FullscreenConfigured ==
    FileHas("fullscreen") /\ Join(FileValue("fullscreen").val) \in {"true", "1"}

\* C11: every overlay child is exec'd with -c and the colour, -b and the
\* clamped brightness, -w and the clamped width, -s and its selector, and with
\* -f exactly when fullscreen is configured.
C11_ChildArgs ==
    \A n \in 1..Len(argvs) :
        LET a == argvs[n]
        IN  /\ HasArg(a, "-c") /\ ArgOf(a, "-c") = color
            /\ HasArg(a, "-b") /\ ArgOf(a, "-b") = Join(Itoa(Limit(brightness, 1, 100)))
            /\ HasArg(a, "-w") /\ ArgOf(a, "-w") = Join(Itoa(Limit(width, 10, 500)))
            /\ HasArg(a, "-s") /\ ArgOf(a, "-s") = forked[n]
            /\ HasArg(a, "-f") <=> FullscreenConfigured

\* C12: a spawn() that found nothing running has called fork() once per
\* selector, also after a fork that failed, and every child that was started
\* is recorded.
C12_ForkFailureSkipsOne ==
    (lastcall = "spawn" /\ pre_count = 0) =>
        /\ attempted = ForkTarget
        /\ overlay_count = Len(forked)
        /\ \A k \in 0..(overlay_count - 1) : overlay_pids[k] > 0

\* The fork for the first of two selectors failed, the second child runs and
\* is recorded.
C12_Witness ==
    /\ lastcall = "spawn"
    /\ pre_count = 0
    /\ forkfail
    /\ screen_count = 2
    /\ attempted = 2
    /\ forked = <<screens[2]>>
    /\ overlay_count = 1

\* C13: after spawn() has returned, the recorded children are exactly those
\* whose exec succeeded: no recorded pid belongs to a child whose exec failed.
C13_ExecFailureNotRecorded ==
    lastcall = "spawn" =>
        \A k \in 0..(overlay_count - 1) : overlay_pids[k] \notin execFailed

\* C14: in every state the number of recorded children is at most the
\* capacity of the pid array, which is at most 16; the selector lists fit
\* their arrays, and the slot a fork is about to fill is a slot of the array.
C14_ChildCountWithinCap ==
    /\ MAX_SCREENS <= 16
    /\ overlay_count <= MAX_SCREENS
    /\ Len(screens) <= MAX_SCREENS
    /\ Len(cmd.cmd_screens) <= MAX_SCREENS
    /\ DOMAIN overlay_pids = 0..(MAX_SCREENS - 1)
    /\ pc = "so_fork" => overlay_count < MAX_SCREENS

\* Nine selectors were given and the array of children is full.
C14_Witness ==
    /\ lastcall = "spawn"
    /\ overlay_count = MAX_SCREENS
    /\ Len(screens) = MAX_SCREENS
    /\ \/ HasFlag("s") /\ Len(Strtok(LastArg("s"))) > MAX_SCREENS
       \/ FileHas("enabledScreens") /\ Len(Strtok(FileValue("enabledScreens").val)) > MAX_SCREENS

\* C15: once startup has completed brightness is within 1..100 and width
\* within 10..500, whatever the file and -b/-w give (0 gives 1, 101 gives 100,
\* 5 gives 10, 1000 gives 500), in every later state of the daemon.
C15_AppearanceClamped ==
    Started =>
        /\ brightness \in 1..100
        /\ width \in 10..500
        /\ GivenNumber("b", "brightness", 100) = 0 => brightness = 1
        /\ GivenNumber("b", "brightness", 100) = 101 => brightness = 100
        /\ GivenNumber("w", "width", 80) = 5 => width = 10
        /\ GivenNumber("w", "width", 80) = 1000 => width = 500
        /\ GivenNumber("b", "brightness", 100) \in 1..100 =>
                brightness = GivenNumber("b", "brightness", 100)

\* The file gives brightness 101 and width 1000; overlays have been spawned
\* and terminated since.
C15_Witness ==
    /\ Started
    /\ lastcall = "terminate"
    /\ ~HasFlag("b")
    /\ GivenNumber("b", "brightness", 100) = 101
    /\ GivenNumber("w", "width", 80) = 1000
    /\ brightness = 100
    /\ width = 500

\* C16: once startup has completed the poll interval is at least 100 ms,
\* whatever poll_interval in the file and -i give.
C16_PollIntervalFloor == Started => poll_ms >= 100

\* The watch list the file gives.
FileProcs ==
    IF FileHas("processes")
    THEN AddTokens(<<>>, Strtok(FileValue("processes").val), MAX_PROCS - 1, TRUE)
    ELSE <<>>

\* The screen list the file gives.
FileScreenList ==
    IF FileHas("enabledScreenIndices")
    THEN AddTokens(<<>>, Strtok(FileValue("enabledScreenIndices").val), MAX_SCREENS, TRUE)
    ELSE IF FileHas("enabledScreens")
    THEN AddTokens(<<>>, Strtok(FileValue("enabledScreens").val), MAX_SCREENS, TRUE)
    ELSE <<>>

\* C17: for each of device, colour, brightness, width, watch list and screen
\* list the value after startup is that of the flag if the flag is present,
\* else that of the file if the key is present, else the default; the flag of
\* one field has no part in the value of another.
C17_CliOverridesPerField ==
    Started =>
        /\ video_dev = (IF HasFlag("d") THEN Join(LastArg("d"))
                        ELSE IF FileHas("videoDevice") THEN Join(FileValue("videoDevice").val)
                        ELSE DEFAULT_DEVICE)
        /\ color = (IF HasFlag("c") THEN Join(LastArg("c"))
                    ELSE IF FileValue("color").found
                    THEN Join(SelectSeq(FileValue("color").val, LAMBDA c : c # "#"))
                    ELSE "FFFFFF")
        /\ brightness = Limit(GivenNumber("b", "brightness", 100), 1, 100)
        /\ width = Limit(GivenNumber("w", "width", 80), 10, 500)
        /\ procs = (IF HasFlag("p")
                    THEN [k \in 1..Len(FlagArgs("p")) |-> Join(FlagArgs("p")[k].arg)]
                    ELSE IF FileProcs # <<>> THEN FileProcs
                    ELSE <<"howdy">>)
        /\ screens = (IF HasFlag("s") THEN ParseOpts(NoCmd, FlagArgs("s")).cmd_screens
                      ELSE FileScreenList)

\* The file gives at least one name: some token of "processes" has a
\* character that is not white space.
FileGivesName ==
    /\ FileHas("processes")
    /\ \E t \in 1..Len(Strtok(FileValue("processes").val)) :
          \E c \in 1..Len(Strtok(FileValue("processes").val)[t]) :
              Strtok(FileValue("processes").val)[t][c] \notin Space

\* C18: after startup the watch list is never empty, and it is exactly the
\* default entry "howdy" when neither the file nor the command line gives a
\* name.
C18_WatchListNeverEmpty ==
    Started =>
        /\ Len(procs) >= 1
        /\ (~HasFlag("p") /\ ~FileGivesName) => procs = <<"howdy">>

\* C19: the V4L2 probe reports the device in use exactly when the device was
\* opened and the REQBUFS ioctl failed with EBUSY, whatever close() does.
C19_BusyIffReqbufsEbusy ==
    ca.v # "none" =>
        (ca.v = "yes" <=> (sys.open_ok /\ sys.ioctl_ret < 0 /\ sys.ioctl_errno = "EBUSY"))

\* The ioctl failed with EBUSY, close() failed afterwards, the probe says busy.
C19_Witness ==
    /\ ca.v = "yes"
    /\ sys.close_errno = "EIO"
    /\ errno = "EIO"

\* C20: in a tick in which a watched process is found, the V4L2 probe is not
\* invoked and the device is not opened.
C20_NoV4l2ProbeOnMatch ==
    ca.w = "yes" => (ca.v = "none" /\ ~dev_opened)

\* cam_active has returned on a watched process while the device would have
\* answered EBUSY.
C20_Witness ==
    /\ pc = "p_done"
    /\ ca.w = "yes"
    /\ ca.v = "none"
    /\ sys.open_ok /\ sys.ioctl_ret < 0 /\ sys.ioctl_errno = "EBUSY"

\* ------------------------------------------------- names, as the claims read them
UpperCase == <<"H", "O", "W", "D", "Y", "Z", "M", "P">>
LowerCase == <<"h", "o", "w", "d", "y", "z", "m", "p">>

ToLower(c) ==
    IF \E k \in 1..Len(UpperCase) : UpperCase[k] = c
    THEN LowerCase[CHOOSE k \in 1..Len(UpperCase) : UpperCase[k] = c]
    ELSE c

Lowered(w) == [k \in 1..Len(w) |-> ToLower(w[k])]

\* hay contains needle as a substring.
Contains(hay, needle) ==
    \E a \in 0..(Len(hay) - Len(needle)) : SubSeq(hay, a + 1, a + Len(needle)) = needle

\* The characters of a watch name.
Spell(name) ==
    CHOOSE w \in {<<"h", "o", "w", "d", "y">>, <<"z", "o", "o", "m">>} : Join(w) = name

\* The match the claim describes, for process p and watch name number k.
ClaimedMatch(p, k) ==
    \/ Lowered(sys[p].comm) = Lowered(Spell(procs[k]))
    \/ Contains(Lowered(sys[p].cmdline), Lowered(Spell(procs[k])))

\* C21: a process counts as a watched match exactly when its short name
\* equals a watch name without regard to case, or its command line contains
\* a watch name without regard to case; so the scan of the watched processes
\* is positive exactly when some process matches in that sense.
C21_MatchIgnoresCaseOrCmdline ==
    ca.w # "none" =>
        (ca.w = "yes" <=> \E p \in ProcDirs : \E k \in 1..Len(procs) : ClaimedMatch(p, k))

\* The device path the scan compares with, and who holds it.
HeldByOther == sys.rp # "none" /\ sys.rp \in sys.other.fds

\* C22 as stated: the scan of the descriptors is positive exactly when some
\* process other than the daemon holds a descriptor whose link target is the
\* canonical device path.
C22_ScanIffHeldByOther ==
    ca.d # "none" => (ca.d = "yes" <=> HeldByOther)

\* C22, amended: the same, for processes whose fd directory the daemon can
\* open; descriptors of the daemon itself never make the scan positive.
C22_ScanIffHeldByReadableOther ==
    ca.d # "none" => (ca.d = "yes" <=> (HeldByOther /\ sys.other.fd_readable))

\* Only the daemon itself has the device open: the scan says not in use.
C22_Witness ==
    /\ ca.d = "no"
    /\ sys.rp = "/dev/video0"
    /\ sys.rp \in sys.self.fds
    /\ sys.rp \notin sys.other.fds

\* The EXEC events process p has received since it was created: one for each
\* image it ran, the current one last.  It has received no EXIT.
ExecEvents(p) == sys[p].execd \o <<sys[p].comm>>

\* The pids that received an EXEC whose short name is a watch name, as the
\* daemon compares names, and no EXIT since.
ExecMatchedAlive ==
    {p \in ProcDirs :
        \E e \in 1..Len(ExecEvents(p)) : \E k \in 1..Len(procs) :
            CommEquals(ExecEvents(p)[e], procs[k])}

\* C23: whatever EXEC and EXIT events the processes have gone through, the
\* pids the daemon holds as watched are exactly those that received an EXEC
\* matching a watch name and no EXIT yet; so the daemon finds a watched
\* process exactly when that set is not empty.
C23_WatchedSetFollowsEvents ==
    ca.w # "none" => (ca.w = "yes" <=> ExecMatchedAlive # {})

\* The file asks for PROCESS mode.
ProcessModeConfigured == FileHas("mode") /\ Join(FileValue("mode").val) = "process"

\* C24: in PROCESS mode, when binding the subscription channel is denied, the
\* daemon exits with code 1 at startup: it never reaches the loop and spawns
\* no overlay.
C24_ProcessModeNeedsCapability ==
    (ProcessModeConfigured /\ ~cap_net_admin) =>
        /\ ~Started
        /\ pc = "done" => exit_status = 1

\* The selector list the file gives when the three keys are read in the order
\* screens, enabledScreens, enabledScreenIndices, a later key overriding an
\* earlier one.
ClaimedFileScreens ==
    IF FileHas("enabledScreenIndices") \/ FileHas("enabledScreens") THEN FileScreenList
    ELSE IF FileHas("screens")
    THEN AddTokens(<<>>, Strtok(FileValue("screens").val), MAX_SCREENS, TRUE)
    ELSE <<>>

\* C25: without -s, the selector list after startup comes from
\* enabledScreenIndices alone when that key has a value, from enabledScreens
\* only when it has none, and from the key screens in the same way when
\* neither of the two has a value.
C25_LaterScreenKeyWins ==
    (Started /\ ~HasFlag("s")) => screens = ClaimedFileScreens

\* The value the file gives under either spelling of a key, when it has one.
EitherKey(a, b) == IF FileHas(a) THEN FileValue(a) ELSE FileValue(b)

\* C26: both spellings of the device key and of the watch list key are
\* honoured: without -d a file that sets video_device or videoDevice sets the
\* device path, and without -p one that sets watch_processes or processes
\* sets the watch list.
C26_BothSpellingsHonoured ==
    Started =>
        /\ (~HasFlag("d") /\ (FileHas("videoDevice") \/ FileHas("video_device"))) =>
                video_dev = Join(EitherKey("videoDevice", "video_device").val)
        /\ (~HasFlag("p") /\ (FileHas("processes") \/ FileHas("watch_processes"))) =>
                procs = AddTokens(<<>>, Strtok(EitherKey("processes", "watch_processes").val),
                                  MAX_PROCS - 1, TRUE)

OvSelector ==
    LET ss == SelectSeq(ov.argv, LAMBDA o : o.flag = "s")
    IN  IF ss = <<>> THEN <<>> ELSE ss[Len(ss)].arg

\* The selector is a number.
IsIndex(sel) == sel # <<>> /\ \A k \in 1..Len(sel) : IsDigit(sel[k])

\* C28: once the overlay has chosen its output, a selector equal to the name
\* of output k has made it choose output k, for every k, and a selector that
\* is an index within range has made it choose the output of that index.
C28_SelectorByNameOrIndex ==
    ov.target >= 0 =>
        /\ \A k \in 1..Len(ov.outputs) :
                Join(OvSelector) = ov.outputs[k] => ov.target = k - 1
        /\ (IsIndex(OvSelector) /\ Atoi(OvSelector) < Len(ov.outputs)) =>
                ov.target = Atoi(OvSelector)

\* C29: an overlay that has entered its event loop and receives SIGTERM or
\* SIGINT leaves the loop, destroys its panels and exits, whether or not the
\* compositor sends it another event.
C29_SignalEndsOverlay ==
    (ov.handlers /\ ov.signaled) ~> (ov.pc = "o_exit" /\ ov.destroyed)

\* The calls a sequence of readings asks for, the light being OFF before the
\* first of them: a spawn at every tick whose reading is busy after a reading
\* that was not, a terminate at every tick whose reading is not busy after
\* one that was.
RECURSIVE EdgeCalls(_, _)
EdgeCalls(rs, k) ==
    IF k > Len(rs) THEN <<>>
    ELSE LET prev == IF k = 1 THEN FALSE ELSE rs[k - 1]
         IN  (IF rs[k] /\ ~prev THEN << <<k, "spawn">> >>
              ELSE IF ~rs[k] /\ prev THEN << <<k, "terminate">> >>
              ELSE <<>>) \o EdgeCalls(rs, k + 1)

\* C30: whatever the readings, the calls of the loop are spawn, terminate,
\* spawn, ... in turn, beginning with spawn, one spawn at each change from
\* not busy to busy and one terminate at each change from busy to not busy;
\* the readings not busy, not busy, busy, busy, not busy give one spawn at
\* tick 3 and one terminate at tick 5.
C30_CallsAlternate ==
    rec =>
        /\ \A k \in 1..Len(callLog) :
                callLog[k][2] = (IF k % 2 = 1 THEN "spawn" ELSE "terminate")
        /\ callLog = EdgeCalls(readings, 1)
        /\ readings = <<FALSE, FALSE, TRUE, TRUE, FALSE>> =>
                callLog = << <<3, "spawn">>, <<5, "terminate">> >>

\* The five readings of the example have been taken and the terminate of
\* tick 5 has returned.
C30_Witness ==
    /\ rec
    /\ readings = <<FALSE, FALSE, TRUE, TRUE, FALSE>>
    /\ Len(callLog) = 2
    /\ lastcall = "terminate"
    /\ pc = "loop"

\* C31 as stated: once sig_handler has cleared running, the loop makes no
\* further call of start_overlays, wherever in the iteration the signal came.
C31_NoSpawnAfterSignal ==
    [][~running => ~(pc = "probe" /\ pc' = "so_check")]_vars

\* C31, amended: once sig_handler has cleared running, the loop begins no
\* further iteration; only the iteration whose test of the flag came before
\* the signal can still call start_overlays.
C31_NoIterationAfterSignal ==
    [][~running => ~(pc = "loop" /\ pc' = "probe")]_vars

\* The flag was cleared while the light was ON: the test of the loop has sent
\* the daemon to its exit, with the children of the last spawn still recorded.
C31_Witness ==
    /\ ~running
    /\ pc = "exit"
    /\ was
    /\ lastcall = "spawn"
    /\ overlay_count > 0

\* The process the pid recorded in slot s names is not an unrelated one.
NotUnrelated(s) == overlay_pids[s] > 0 => proc[overlay_pids[s]] # "other"

\* C32: every SIGTERM and SIGKILL of stop_overlays goes to a recorded pid
\* that is not the pid of an unrelated process, and start_overlays finds its
\* overlays already running only because of a child of its own: a recorded
\* pid that an unrelated process has taken over is never signalled and never
\* turns the spawn into a no-op.
C32_OnlyOwnChildrenSignalled ==
    [][/\ \A s \in termSent' \ termSent : NotUnrelated(s)
       /\ \A s \in killSent' \ killSent : NotUnrelated(s)
       /\ (pc = "so_check" /\ AlreadyRunning) =>
              \E k \in 0..(overlay_count - 1) :
                  overlay_pids[k] > 0 /\ proc[overlay_pids[k]] \in {"child", "zombie"}]_vars

\* C33: when the exec of a forked child fails, the child ends and nothing
\* else happens: no other process is signalled or ended by it, and the pids
\* and the count the daemon has recorded stay as they are.
C33_FailedChildTouchesNothing ==
    [][\A p \in execFailed' \ execFailed :
          /\ \A q \in Pids \ {p} : proc'[q] = proc[q]
          /\ overlay_pids' = overlay_pids
          /\ overlay_count' = overlay_count]_vars

\* The exec of the second child has failed while the first child, forked
\* before it, is running and recorded.
C33_Witness ==
    /\ overlay_count = 2
    /\ overlay_pids[1] \in execFailed
    /\ overlay_pids[0] > 0
    /\ overlay_pids[0] \notin execFailed
    /\ proc[overlay_pids[0]] = "child"

\* The daemon is inside stop_overlays.
InTerminate == pc \in {"st_entry", "st_loop", "st_poll", "st_esc"}

C36_AttachedBufferHasPanelSize ==
    ov.panel.last = "ok" =>
        ov.panel.attached = [w |-> ov.panel.width, h |-> ov.panel.height]

\* The values of the four keys the monitor reads.
MonitorKeys(st) ==
    <<st.processes, st.videoDevice, st.enabledScreens, st.enabledScreenIndices>>

\* C37: loading the settings at start-up leaves the persisted configuration
\* unchanged.  When the constructor's loadSettings has run, the stored
\* processes, videoDevice, enabledScreens and enabledScreenIndices are the
\* ones the file held before the program started, and no saveSettings has run
\* before the widgets were filled from the file.
C37_LoadLeavesConfig ==
    gui.pc = "g_loaded" =>
        /\ MonitorKeys(gui.stored) = MonitorKeys(gui.file0)
        /\ ~gui.savedInLoad

\* C38: the window holds at most one ringlight-monitor child, and none, and
\* no handle of one, whenever the auto-enable box is unchecked: no monitor is
\* started while an earlier one is held.
C38_AtMostOneMonitor ==
    /\ gui.monitors <= 1
    /\ gui.monitors = 1 <=> gui.m_monitorProc = "running"
    /\ ~gui.m_autoEnable => (gui.monitors = 0 /\ gui.m_monitorProc = "null")

\* The box is checked, a monitor is held, and it is not the first one: the
\* timer has run after loadSettings had started one.
C38_Witness ==
    /\ gui.pc = "g_idle"
    /\ gui.savedInLoad
    /\ ~gui.timer.armed
    /\ gui.m_autoEnable
    /\ gui.monitors = 1

\* C39: for every poll interval the daemon accepts, the sleep duration
\* poll_ms * 1000 equals the mathematical product: it does not overflow the
\* 32-bit int in which it is computed.
C39_SleepProductFits == SleepFits(poll_ms)
====
